---- MODULE Spec2Model ----
(***************************************************************************)
(* A model of the Cortex portable brain: the brain store (brain-store),    *)
(* the planner guard (planner-guard) and the proxy's chat pipeline         *)
(* (cortex-app/proxy.rs).                                                  *)
(*                                                                         *)
(* Abstractions.  Cryptography is ideal: a sealed blob can be opened only  *)
(* with the key and the associated data it was sealed with, a signature    *)
(* verifies only over the payload it was made for and under the public key *)
(* of the signing key, and SHA-256 is injective.  Random values (uuids,    *)
(* salts, signing keys, nonces) are fresh: they are derived from the       *)
(* logical clock, which advances with every store operation.  Time stamps  *)
(* are readings of that clock.  Constant manifest fields (format_version,  *)
(* rmvm_proto_version, schema_migrations, created_at, tenant_id) and the   *)
(* id and ts of audit entries are left out.                                *)
(***************************************************************************)
EXTENDS Integers, Sequences, FiniteSets, TLC

VARIABLES
    brains,     \* <home>/brains: dir name -> [brain_json, state_enc, signing_key_enc]
    files,      \* package files outside the store: path -> <<>> or <<package>>
    env,        \* value of the passphrase env var: <<>> (unset) or <<secret>>
    clock,      \* logical time; also the number of store operations started
    pc,         \* the mutation in flight (mutate_brain between its writes)
    last,       \* the last store operation that returned (or was cut short)
    plan_in,    \* the RmvmPlan handed to the planner guard
    manifest_in, \* the PublicManifest handed to the planner guard
    verdict,    \* <<>> or <<what the planner guard returned>>
    home,       \* <home>/config.json and <home>/auth/api_keys.json
    app,        \* the proxy's AppState: default_brain and the planner's config
    chat        \* the chat request being handled: handle_chat_completion's locals

storeVars == <<brains, files, env, clock, pc, last>>

guardVars == <<plan_in, manifest_in, verdict>>

proxyVars == <<home, app, chat>>

vars == <<brains, files, env, clock, pc, last, plan_in, manifest_in, verdict, home, app, chat>>

(***************************************************************************)
(* Bounds                                                                  *)
(***************************************************************************)
MaxOps == 3

\* The longest plan handed to the planner guard
MaxSteps == 2

(***************************************************************************)
(* Option and Result                                                       *)
(***************************************************************************)
None == <<>>
Some(x) == <<x>>
Ok(v) == [ok |-> TRUE, val |-> v]
Err(e) == [ok |-> FALSE, err |-> e]

(***************************************************************************)
(* Crypto primitives                                                       *)
(***************************************************************************)
derive_key(secret, salt) == [secret |-> secret, salt |-> salt]

encrypt_bytes(key, aad, plain, nonce) ==
    [nonce_b64 |-> nonce,
     ciphertext_b64 |-> [key |-> key, aad |-> aad, plain |-> plain]]

decrypt_bytes(key, aad, blob) ==
    IF blob.ciphertext_b64.key = key /\ blob.ciphertext_b64.aad = aad
    THEN Ok(blob.ciphertext_b64.plain)
    ELSE Err("decryption failed")

encrypt_json(key, aad, value, nonce) == encrypt_bytes(key, aad, value, nonce)

decrypt_json(key, aad, blob) == decrypt_bytes(key, aad, blob)

sha256_hex(bytes) == [sha256 |-> bytes]

verifying_key(signing_key) == [public_of |-> signing_key]

manifest_signing_payload(manifest) == [manifest EXCEPT !.signature_b64 = None]

sign_manifest(manifest, signing_key) ==
    Some([signer |-> signing_key, payload |-> manifest_signing_payload(manifest)])

verify_manifest_signature(manifest) ==
    /\ manifest.signature_b64 # None
    /\ verifying_key(manifest.signature_b64[1].signer) = manifest.signing_public_key_b64
    /\ manifest.signature_b64[1].payload = manifest_signing_payload(manifest)

(***************************************************************************)
(* Data model                                                              *)
(***************************************************************************)
DEFAULT_SECRET_ENV == "CORTEX_BRAIN_SECRET"

EnvNames == {"CORTEX_BRAIN_SECRET", "OTHER_SECRET"}

\* The environment variables the program reads: the passphrase variables and
\* the brain ref override.
EnvVars == EnvNames \cup {"CORTEX_BRAIN"}

\* BTreeMap<String, _> iterates in key order: the object ids, in that order.
ObjIdOrder == <<"o1", "o2">>

ObjIds == {ObjIdOrder[i] : i \in 1..Len(ObjIdOrder)}

EmptyMap == [k \in {} |-> TRUE]

\* BTreeMap::insert
MapInsert(m, k, v) == [x \in DOMAIN m \cup {k} |-> IF x = k THEN v ELSE m[x]]

\* A file that holds JSON of the expected type, and one that does not parse.
JsonFile(v) == [parses |-> TRUE, val |-> v]

Unparsable == [parses |-> FALSE]

MemoryObject(id, predicate, value, suppressed) ==
    [id |-> id, subject |-> "user:x", predicate |-> predicate,
     value |-> value, suppressed |-> suppressed]

BranchState(name, objects, rules) ==
    [name |-> name, memory_objects |-> objects, rules |-> rules,
     ledger |-> <<>>, suppressions |-> <<>>]

audit_entry(actor, action, details) ==
    [actor |-> actor, action |-> action, details |-> details]

summary_of(manifest) ==
    [brain_id |-> manifest.brain_id, name |-> manifest.name,
     updated_at |-> manifest.updated_at, active_branch |-> manifest.active_branch]

(***************************************************************************)
(* Reading the store                                                       *)
(***************************************************************************)
\* list_brains: a directory without brain.json is skipped, an unparsable
\* brain.json makes the listing fail (read_json(...)? inside the loop).
list_brains ==
    IF \E d \in DOMAIN brains :
          brains[d].brain_json # None /\ ~brains[d].brain_json[1].parses
    THEN Err("parse")
    ELSE Ok({summary_of(brains[d].brain_json[1].val) :
                d \in {x \in DOMAIN brains : brains[x].brain_json # None}})

resolve_brain(brain_ref) ==
    LET all == list_brains IN
    IF ~all.ok THEN all
    ELSE LET hits == {b \in all.val : b.brain_id = brain_ref \/ b.name = brain_ref} IN
         IF hits = {} THEN Err("brain not found")
         ELSE Ok(CHOOSE b \in hits : TRUE)

\* a load that does not compare the digest of state.enc with state_sha256
load_from_skips_checksum(store, dir) ==
    IF dir \notin DOMAIN store \/ store[dir].brain_json = None
       \/ ~store[dir].brain_json[1].parses
    THEN Err("read brain.json")
    ELSE
    LET manifest == store[dir].brain_json[1].val IN
    IF ~verify_manifest_signature(manifest)
    THEN Err("manifest signature verification failed")
    ELSE IF env[manifest.secret_env_var] = None
    THEN Err("missing secret env var")
    ELSE
    LET key == derive_key(env[manifest.secret_env_var][1], manifest.kdf_salt_b64)
        state_enc == store[dir].state_enc
    IN
    LET state == decrypt_json(key, manifest.brain_id, state_enc) IN
    IF ~state.ok THEN state
    ELSE
    LET signing == decrypt_bytes(key, manifest.brain_id, store[dir].signing_key_enc) IN
    IF ~signing.ok THEN signing
    ELSE Ok([manifest |-> manifest, state |-> state.val, signing_key |-> signing.val])

\* load_by_dir on the directory dir of the brains directory store
load_from(store, dir) ==
    IF dir \notin DOMAIN store \/ store[dir].brain_json = None
       \/ ~store[dir].brain_json[1].parses
    THEN Err("read brain.json")
    ELSE
    LET manifest == store[dir].brain_json[1].val IN
    IF ~verify_manifest_signature(manifest)
    THEN Err("manifest signature verification failed")
    ELSE IF env[manifest.secret_env_var] = None
    THEN Err("missing secret env var")
    ELSE
    LET key == derive_key(env[manifest.secret_env_var][1], manifest.kdf_salt_b64)
        state_enc == store[dir].state_enc
    IN
    IF sha256_hex(state_enc) # manifest.state_sha256
    THEN Err("state checksum mismatch")
    ELSE
    LET state == decrypt_json(key, manifest.brain_id, state_enc) IN
    IF ~state.ok THEN state
    ELSE
    LET signing == decrypt_bytes(key, manifest.brain_id, store[dir].signing_key_enc) IN
    IF ~signing.ok THEN signing
    ELSE Ok([manifest |-> manifest, state |-> state.val, signing_key |-> signing.val])

load_by_dir(dir) == load_from(brains, dir)

load_brain_with_secret(brain_ref) ==
    LET summary == resolve_brain(brain_ref) IN
    IF ~summary.ok THEN summary ELSE load_by_dir(summary.val.brain_id)

(***************************************************************************)
(* The closures of the mutations: (manifest, state) -> Ok([state, ret]) or *)
(* Err.  A closure works on the decrypted copy only.                       *)
(***************************************************************************)
\* a branch that copies the objects, rules and ledger of the active branch
\* but starts the new branch without suppression records
branch_closure_drops_suppressions(manifest, state, new_branch) ==
    IF new_branch \in DOMAIN state.branches
    THEN Err("branch already exists")
    ELSE IF manifest.active_branch \notin DOMAIN state.branches
    THEN Err("active branch missing")
    ELSE
    LET cloned == [state.branches[manifest.active_branch] EXCEPT
                      !.name = new_branch, !.suppressions = <<>>] IN
    Ok([state |->
           [state EXCEPT
              !.branches = MapInsert(@, new_branch, cloned),
              !.audit = Append(@, audit_entry("user", "brain.branch",
                            [from |-> manifest.active_branch, to |-> new_branch]))],
        ret |-> None])

branch_closure(manifest, state, new_branch) ==
    IF new_branch \in DOMAIN state.branches
    THEN Err("branch already exists")
    ELSE IF manifest.active_branch \notin DOMAIN state.branches
    THEN Err("active branch missing")
    ELSE
    LET cloned == [state.branches[manifest.active_branch] EXCEPT !.name = new_branch] IN
    Ok([state |->
           [state EXCEPT
              !.branches = MapInsert(@, new_branch, cloned),
              !.audit = Append(@, audit_entry("user", "brain.branch",
                            [from |-> manifest.active_branch, to |-> new_branch]))],
        ret |-> None])

\* a merge loop whose Ours arm takes the source's object without counting it
RECURSIVE merge_loop_ours_overwrites(_, _, _, _)
merge_loop_ours_overwrites(ids, src, strategy, acc) ==
    IF ids = <<>> THEN acc
    ELSE
    LET id == Head(ids)
        rest == Tail(ids)
    IN
    IF id \notin DOMAIN src THEN merge_loop_ours_overwrites(rest, src, strategy, acc)
    ELSE IF id \notin DOMAIN acc.objects
    THEN merge_loop_ours_overwrites(rest, src, strategy,
             [acc EXCEPT !.objects = MapInsert(@, id, src[id]), !.merged = @ + 1])
    ELSE IF acc.objects[id].value = src[id].value
            /\ acc.objects[id].suppressed = src[id].suppressed
    THEN merge_loop_ours_overwrites(rest, src, strategy, acc)
    ELSE IF strategy = "Ours"
    THEN merge_loop_ours_overwrites(rest, src, strategy,
             [acc EXCEPT !.objects = MapInsert(@, id, src[id])])
    ELSE IF strategy = "Theirs"
    THEN merge_loop_ours_overwrites(rest, src, strategy,
             [acc EXCEPT !.objects = MapInsert(@, id, src[id]), !.merged = @ + 1])
    ELSE merge_loop_ours_overwrites(rest, src, strategy,
             [acc EXCEPT !.conflicts = Append(@, id)])

\* a merge loop whose Theirs arm counts the object but keeps the target's
RECURSIVE merge_loop_theirs_keeps_target(_, _, _, _)
merge_loop_theirs_keeps_target(ids, src, strategy, acc) ==
    IF ids = <<>> THEN acc
    ELSE
    LET id == Head(ids)
        rest == Tail(ids)
    IN
    IF id \notin DOMAIN src THEN merge_loop_theirs_keeps_target(rest, src, strategy, acc)
    ELSE IF id \notin DOMAIN acc.objects
    THEN merge_loop_theirs_keeps_target(rest, src, strategy,
             [acc EXCEPT !.objects = MapInsert(@, id, src[id]), !.merged = @ + 1])
    ELSE IF acc.objects[id].value = src[id].value
            /\ acc.objects[id].suppressed = src[id].suppressed
    THEN merge_loop_theirs_keeps_target(rest, src, strategy, acc)
    ELSE IF strategy = "Ours"
    THEN merge_loop_theirs_keeps_target(rest, src, strategy, acc)
    ELSE IF strategy = "Theirs"
    THEN merge_loop_theirs_keeps_target(rest, src, strategy, [acc EXCEPT !.merged = @ + 1])
    ELSE merge_loop_theirs_keeps_target(rest, src, strategy,
             [acc EXCEPT !.conflicts = Append(@, id)])

\* The loop of merge over the source's objects, in id order.  acc is
\* [objects, merged, conflicts]: the target's objects and the report so far.
RECURSIVE merge_loop(_, _, _, _)
merge_loop(ids, src, strategy, acc) ==
    IF ids = <<>> THEN acc
    ELSE
    LET id == Head(ids)
        rest == Tail(ids)
    IN
    IF id \notin DOMAIN src THEN merge_loop(rest, src, strategy, acc)
    ELSE IF id \notin DOMAIN acc.objects
    THEN merge_loop(rest, src, strategy,
             [acc EXCEPT !.objects = MapInsert(@, id, src[id]), !.merged = @ + 1])
    ELSE IF acc.objects[id].value = src[id].value
            /\ acc.objects[id].suppressed = src[id].suppressed
    THEN merge_loop(rest, src, strategy, acc)
    ELSE IF strategy = "Ours"
    THEN merge_loop(rest, src, strategy, acc)
    ELSE IF strategy = "Theirs"
    THEN merge_loop(rest, src, strategy,
             [acc EXCEPT !.objects = MapInsert(@, id, src[id]), !.merged = @ + 1])
    ELSE merge_loop(rest, src, strategy,
             [acc EXCEPT !.conflicts = Append(@, id)])

\* [T]::join
RECURSIVE join(_, _)
join(blocks, sep) ==
    IF blocks = <<>> THEN <<>>
    ELSE IF Len(blocks) = 1 THEN blocks[1]
    ELSE blocks[1] \o sep \o join(Tail(blocks), sep)

\* merge that persists what the loop did although it met conflicts
merge_closure_keeps_conflicts(manifest, state, source, target, strategy) ==
    IF source \notin DOMAIN state.branches THEN Err("unknown source branch")
    ELSE IF target \notin DOMAIN state.branches THEN Err("unknown target branch")
    ELSE
    LET done == merge_loop(ObjIdOrder, state.branches[source].memory_objects, strategy,
                    [objects |-> state.branches[target].memory_objects,
                     merged |-> 0, conflicts |-> <<>>])
    IN
    Ok([state |->
           [state EXCEPT
              !.branches[target].memory_objects = done.objects,
              !.audit = Append(@, audit_entry("user", "brain.merge",
                            [source |-> source, target |-> target,
                             merged |-> done.merged]))],
        ret |-> [merged |-> done.merged, conflicts |-> done.conflicts]])

merge_closure(manifest, state, source, target, strategy) ==
    IF source \notin DOMAIN state.branches THEN Err("unknown source branch")
    ELSE IF target \notin DOMAIN state.branches THEN Err("unknown target branch")
    ELSE
    LET done == merge_loop(ObjIdOrder, state.branches[source].memory_objects, strategy,
                    [objects |-> state.branches[target].memory_objects,
                     merged |-> 0, conflicts |-> <<>>])
        report == [merged |-> done.merged, conflicts |-> done.conflicts]
    IN
    IF done.conflicts # <<>>
    THEN \* bail!("merge conflicts: {}", report.conflicts.join(",")): the caller
         \* of merge gets the error and its text, the report is dropped
         [ok |-> FALSE, err |-> "merge conflicts",
          text |-> join([i \in DOMAIN done.conflicts |-> <<done.conflicts[i]>>],
                        <<",">>)]
    ELSE
    Ok([state |->
           [state EXCEPT
              !.branches[target].memory_objects = done.objects,
              !.audit = Append(@, audit_entry("user", "brain.merge",
                            [source |-> source, target |-> target,
                             merged |-> done.merged]))],
        ret |-> report])

\* a forget_suppress that flips the flag of every matching object
forget_suppress_closure_toggles(manifest, state, subject, predicate) ==
    IF manifest.active_branch \notin DOMAIN state.branches
    THEN Err("active branch missing")
    ELSE
    LET objects == state.branches[manifest.active_branch].memory_objects
        match(id) == /\ objects[id].subject = subject
                     /\ objects[id].predicate = predicate
        suppressed == Cardinality({id \in DOMAIN objects :
                                      match(id) /\ ~objects[id].suppressed})
        after == [id \in DOMAIN objects |->
                     IF match(id) THEN [objects[id] EXCEPT !.suppressed = ~@]
                     ELSE objects[id]]
    IN
    Ok([state |->
           [state EXCEPT
              !.branches[manifest.active_branch].memory_objects = after,
              !.branches[manifest.active_branch].suppressions =
                  Append(@, [subject |-> subject, predicate |-> predicate,
                             suppressed_count |-> suppressed]),
              !.audit = Append(@, audit_entry("user", "brain.forget.suppress",
                            [subject |-> subject, predicate |-> predicate,
                             suppressed |-> suppressed]))],
        ret |-> suppressed])

\* a forget_suppress that counts every matching object, suppressed or not
forget_suppress_closure_counts_all(manifest, state, subject, predicate) ==
    IF manifest.active_branch \notin DOMAIN state.branches
    THEN Err("active branch missing")
    ELSE
    LET objects == state.branches[manifest.active_branch].memory_objects
        hit(id) == /\ objects[id].subject = subject
                   /\ objects[id].predicate = predicate
                   /\ ~objects[id].suppressed
        suppressed == Cardinality({id \in DOMAIN objects :
                                      /\ objects[id].subject = subject
                                      /\ objects[id].predicate = predicate})
        after == [id \in DOMAIN objects |->
                     IF hit(id) THEN [objects[id] EXCEPT !.suppressed = TRUE]
                     ELSE objects[id]]
    IN
    Ok([state |->
           [state EXCEPT
              !.branches[manifest.active_branch].memory_objects = after,
              !.branches[manifest.active_branch].suppressions =
                  Append(@, [subject |-> subject, predicate |-> predicate,
                             suppressed_count |-> suppressed]),
              !.audit = Append(@, audit_entry("user", "brain.forget.suppress",
                            [subject |-> subject, predicate |-> predicate,
                             suppressed |-> suppressed]))],
        ret |-> suppressed])

forget_suppress_closure(manifest, state, subject, predicate) ==
    IF manifest.active_branch \notin DOMAIN state.branches
    THEN Err("active branch missing")
    ELSE
    LET objects == state.branches[manifest.active_branch].memory_objects
        hit(id) == /\ objects[id].subject = subject
                   /\ objects[id].predicate = predicate
                   /\ ~objects[id].suppressed
        suppressed == Cardinality({id \in DOMAIN objects : hit(id)})
        after == [id \in DOMAIN objects |->
                     IF hit(id) THEN [objects[id] EXCEPT !.suppressed = TRUE]
                     ELSE objects[id]]
    IN
    Ok([state |->
           [state EXCEPT
              !.branches[manifest.active_branch].memory_objects = after,
              !.branches[manifest.active_branch].suppressions =
                  Append(@, [subject |-> subject, predicate |-> predicate,
                             suppressed_count |-> suppressed]),
              !.audit = Append(@, audit_entry("user", "brain.forget.suppress",
                            [subject |-> subject, predicate |-> predicate,
                             suppressed |-> suppressed]))],
        ret |-> suppressed])

\* an attach that starts the audit log over with its own entry
attach_closure_rewrites_audit(manifest, state, grant) ==
    LET other(a) == ~(a.agent_id = grant.agent_id /\ a.model_id = grant.model_id) IN
    Ok([state |->
           [state EXCEPT
              !.attachments = Append(SelectSeq(@, other), grant),
              !.audit = <<audit_entry("user", "brain.attach",
                            [agent |-> grant.agent_id, model |-> grant.model_id])>>],
        ret |-> None])

\* an attach that appends the grant and keeps an older grant of the pair
attach_closure_keeps_old(manifest, state, grant) ==
    Ok([state |->
           [state EXCEPT
              !.attachments = Append(@, grant),
              !.audit = Append(@, audit_entry("user", "brain.attach",
                            [agent |-> grant.agent_id, model |-> grant.model_id]))],
        ret |-> None])

attach_closure(manifest, state, grant) ==
    LET other(a) == ~(a.agent_id = grant.agent_id /\ a.model_id = grant.model_id) IN
    Ok([state |->
           [state EXCEPT
              !.attachments = Append(SelectSeq(@, other), grant),
              !.audit = Append(@, audit_entry("user", "brain.attach",
                            [agent |-> grant.agent_id, model |-> grant.model_id]))],
        ret |-> None])

\* model is None or Some(model id)
detach_closure(manifest, state, agent, model) ==
    LET miss(a) == ~(a.agent_id = agent /\ (model = None \/ model[1] = a.model_id))
        kept == SelectSeq(state.attachments, miss)
        removed == Len(state.attachments) - Len(kept)
    IN
    Ok([state |->
           [state EXCEPT
              !.attachments = kept,
              !.audit = Append(@, audit_entry("user", "brain.detach",
                            [agent |-> agent, model |-> model, removed |-> removed]))],
        ret |-> removed])

(***************************************************************************)
(* Store operations                                                        *)
(***************************************************************************)
Idle == [phase |-> "idle"]

Snapshot == [brains |-> brains]

\* What the caller of a store operation gets back, with the store as it was
\* when the operation started.
Returned(op, args, dir, res, pre, new) ==
    [op |-> op, args |-> args, dir |-> dir, res |-> res, pre |-> pre, new |-> new]

\* a create_brain that seeds the branch main with a memory object
initial_state_seeded(brain_id) ==
    [branches |-> MapInsert(EmptyMap, "main",
                     BranchState("main",
                         MapInsert(EmptyMap, "o1", MemoryObject("o1", "p1", "v1", FALSE)),
                         <<>>)),
     attachments |-> <<>>,
     audit |-> <<audit_entry("system", "brain.create", [brain_id |-> brain_id])>>]

initial_state(brain_id) ==
    [branches |-> MapInsert(EmptyMap, "main", BranchState("main", EmptyMap, <<>>)),
     attachments |-> <<>>,
     audit |-> <<audit_entry("system", "brain.create", [brain_id |-> brain_id])>>]

\* a create_brain that writes the manifest without signing it
new_brain_unsigned(brain_id, name, secret_env, secret, now) ==
    LET salt == <<"salt", brain_id>>
        key == derive_key(secret, salt)
        signing_key == <<"sk", brain_id>>
        signing_key_enc == encrypt_bytes(key, brain_id, signing_key, <<now, 1>>)
        state_enc == encrypt_json(key, brain_id, initial_state(brain_id), <<now, 2>>)
        manifest == [brain_id |-> brain_id, name |-> name, updated_at |-> now,
                     active_branch |-> "main", kdf_salt_b64 |-> salt,
                     signing_public_key_b64 |-> verifying_key(signing_key),
                     state_sha256 |-> sha256_hex(state_enc),
                     secret_env_var |-> secret_env, signature_b64 |-> None]
    IN
    [brain_json |-> Some(JsonFile(manifest)),
     state_enc |-> state_enc,
     signing_key_enc |-> signing_key_enc]

\* create_brain, from the key derivation on: the three files of the new brain.
new_brain(brain_id, name, secret_env, secret, now) ==
    LET salt == <<"salt", brain_id>>
        key == derive_key(secret, salt)
        signing_key == <<"sk", brain_id>>
        signing_key_enc == encrypt_bytes(key, brain_id, signing_key, <<now, 1>>)
        state_enc == encrypt_json(key, brain_id, initial_state(brain_id), <<now, 2>>)
        manifest == [brain_id |-> brain_id, name |-> name, updated_at |-> now,
                     active_branch |-> "main", kdf_salt_b64 |-> salt,
                     signing_public_key_b64 |-> verifying_key(signing_key),
                     state_sha256 |-> sha256_hex(state_enc),
                     secret_env_var |-> secret_env, signature_b64 |-> None]
    IN
    [brain_json |-> Some(JsonFile(
                       [manifest EXCEPT !.signature_b64 = sign_manifest(manifest, signing_key)])),
     state_enc |-> state_enc,
     signing_key_enc |-> signing_key_enc]

\* passphrase_env is None or Some(name of an env var)
CreateBrain(name, passphrase_env) ==
    /\ pc = Idle
    /\ UNCHANGED <<guardVars, proxyVars>>
    /\ clock < MaxOps
    /\ clock' = clock + 1
    /\ UNCHANGED <<files, env, pc>>
    /\ LET secret_env == IF passphrase_env = None THEN DEFAULT_SECRET_ENV
                         ELSE passphrase_env[1]
           \* slug of the name and the first 8 characters of a fresh uuid
           brain_id == name \o <<ToString(clock + 1)>>
       IN
       IF env[secret_env] = None
       THEN /\ UNCHANGED brains
            /\ last' = Returned("create_brain", [name |-> name, passphrase_env |-> passphrase_env], None, Err("missing passphrase env var"),
                                Snapshot, None)
       ELSE /\ brains' = MapInsert(brains, brain_id,
                             new_brain(brain_id, name, secret_env, env[secret_env][1],
                                       clock + 1))
            /\ last' = Returned("create_brain", [name |-> name, passphrase_env |-> passphrase_env], Some(brain_id),
                                Ok(summary_of(brains'[brain_id].brain_json[1].val)),
                                Snapshot, None)

\* a reseal that keeps the digest of the old state.enc
reseal_stale_digest(manifest, state, signing_key, now) ==
    LET m1 == [manifest EXCEPT !.updated_at = now]
        key == derive_key(env[m1.secret_env_var][1], m1.kdf_salt_b64)
        state_enc == encrypt_json(key, m1.brain_id, state, <<now, 1>>)
    IN
    [manifest |-> [m1 EXCEPT !.signature_b64 = sign_manifest(m1, signing_key)],
     state_enc |-> state_enc]

\* mutate_brain after the closure: updated_at, the state sealed under a fresh
\* nonce, its digest, the signature.
reseal(manifest, state, signing_key, now) ==
    LET m1 == [manifest EXCEPT !.updated_at = now]
        key == derive_key(env[m1.secret_env_var][1], m1.kdf_salt_b64)
        state_enc == encrypt_json(key, m1.brain_id, state, <<now, 1>>)
        m2 == [m1 EXCEPT !.state_sha256 = sha256_hex(state_enc)]
    IN
    [manifest |-> [m2 EXCEPT !.signature_b64 = sign_manifest(m2, signing_key)],
     state_enc |-> state_enc]

\* The closure f that the operation op hands to mutate_brain, applied.
closure(op, args, manifest, state) ==
    CASE op = "branch" -> branch_closure(manifest, state, args.new_branch)
      [] op = "merge" ->
            merge_closure(manifest, state, args.source, args.target, args.strategy)
      [] op = "forget_suppress" ->
            forget_suppress_closure(manifest, state, args.subject, args.predicate)
      [] op = "attach" -> attach_closure(manifest, state, args.grant)
      [] op = "detach" -> detach_closure(manifest, state, args.agent, args.model)

\* mutate_brain up to its first write
mutate_brain(op, args, brain_ref) ==
    /\ pc = Idle
    /\ UNCHANGED <<guardVars, proxyVars>>
    /\ clock < MaxOps
    /\ clock' = clock + 1
    /\ UNCHANGED <<brains, files, env>>
    /\ LET summary == resolve_brain(brain_ref) IN
       IF ~summary.ok
       THEN /\ pc' = pc
            /\ last' = Returned(op, args, None, summary, Snapshot, None)
       ELSE
       LET dir == summary.val.brain_id
           loaded == load_by_dir(dir)
       IN
       IF ~loaded.ok
       THEN /\ pc' = pc
            /\ last' = Returned(op, args, Some(dir), loaded, Snapshot, None)
       ELSE
       LET done == closure(op, args, loaded.val.manifest, loaded.val.state) IN
       IF ~done.ok
       THEN /\ pc' = pc
            /\ last' = Returned(op, args, Some(dir), done, Snapshot, None)
       ELSE IF env[loaded.val.manifest.secret_env_var] = None
       THEN /\ pc' = pc
            /\ last' = Returned(op, args, Some(dir), Err("missing secret env var"), Snapshot, None)
       ELSE
       LET sealed == reseal(loaded.val.manifest, done.val.state,
                            loaded.val.signing_key, clock + 1)
       IN
       /\ pc' = [phase |-> "write_manifest", op |-> op, args |-> args, dir |-> dir,
                 manifest |-> sealed.manifest, state_enc |-> sealed.state_enc,
                 ret |-> done.val.ret, pre |-> Snapshot]
       /\ last' = last

\* brain.json and state.enc as the mutation in flight is about to write them
IntendedFiles ==
    Some([brain_json |-> Some(JsonFile(pc.manifest)), state_enc |-> pc.state_enc])

\* write_json(dir.join("brain.json"), &manifest)
WriteBrainJson ==
    /\ pc.phase = "write_manifest"
    /\ UNCHANGED <<guardVars, proxyVars>>
    /\ brains' = [brains EXCEPT ![pc.dir].brain_json = Some(JsonFile(pc.manifest))]
    /\ pc' = [pc EXCEPT !.phase = "write_state"]
    /\ UNCHANGED <<files, env, clock, last>>

\* write_json(dir.join("state.enc"), &state_enc), and the return of the call
WriteStateEnc ==
    /\ pc.phase = "write_state"
    /\ UNCHANGED <<guardVars, proxyVars>>
    /\ brains' = [brains EXCEPT ![pc.dir].state_enc = pc.state_enc]
    /\ pc' = Idle
    /\ last' = Returned(pc.op, pc.args, Some(pc.dir), Ok(pc.ret), pc.pre, IntendedFiles)
    /\ UNCHANGED <<files, env, clock>>

\* The process stops, or the write of state.enc fails, after mutate_brain
\* has written brain.json.  (A stop before the first write leaves the store
\* as a call never made would.)
Crash ==
    /\ pc # Idle /\ pc.phase = "write_state"
    /\ UNCHANGED <<guardVars, proxyVars>>
    /\ pc' = Idle
    /\ last' = Returned(pc.op, pc.args, Some(pc.dir), Err("interrupted"), pc.pre, IntendedFiles)
    /\ UNCHANGED <<brains, files, env, clock>>

Branch(brain_ref, new_branch) ==
    mutate_brain("branch", [new_branch |-> new_branch], brain_ref)

Merge(brain_ref, source, target, strategy) ==
    mutate_brain("merge", [source |-> source, target |-> target, strategy |-> strategy],
                 brain_ref)

ForgetSuppress(brain_ref, subject, predicate) ==
    mutate_brain("forget_suppress", [subject |-> subject, predicate |-> predicate],
                 brain_ref)

Attach(brain_ref, grant) ==
    mutate_brain("attach", [grant |-> grant], brain_ref)

Detach(brain_ref, agent, model) ==
    mutate_brain("detach", [agent |-> agent, model |-> model], brain_ref)

\* audit_trace
AuditTrace(brain_ref) ==
    /\ pc = Idle
    /\ UNCHANGED <<guardVars, proxyVars>>
    /\ clock < MaxOps
    /\ clock' = clock + 1
    /\ UNCHANGED <<brains, files, env, pc>>
    /\ LET summary == resolve_brain(brain_ref) IN
       IF ~summary.ok
       THEN last' = Returned("audit_trace", [brain_ref |-> brain_ref], None, summary,
                             Snapshot, None)
       ELSE
       LET dir == summary.val.brain_id
           loaded == load_by_dir(dir)
       IN
       IF ~loaded.ok
       THEN last' = Returned("audit_trace", [brain_ref |-> brain_ref], Some(dir), loaded,
                             Snapshot, None)
       ELSE last' = Returned("audit_trace", [brain_ref |-> brain_ref], Some(dir),
                             Ok(loaded.val.state.audit), Snapshot, None)

ExportBrain(brain_ref, out_file) ==
    /\ pc = Idle
    /\ UNCHANGED <<guardVars, proxyVars>>
    /\ clock < MaxOps
    /\ clock' = clock + 1
    /\ UNCHANGED <<brains, env, pc>>
    /\ LET summary == resolve_brain(brain_ref) IN
       IF ~summary.ok
       THEN /\ UNCHANGED files
            /\ last' = Returned("export_brain", [brain_ref |-> brain_ref, out_file |-> out_file], None, summary, Snapshot, None)
       ELSE
       LET dir == summary.val.brain_id
           manifest == brains[dir].brain_json[1].val
       IN
       IF ~verify_manifest_signature(manifest)
       THEN /\ UNCHANGED files
            /\ last' = Returned("export_brain", [brain_ref |-> brain_ref, out_file |-> out_file], Some(dir),
                                Err("manifest signature verification failed"), Snapshot, None)
       ELSE /\ files' = [files EXCEPT ![out_file] =
                            Some([manifest |-> manifest,
                                  state |-> brains[dir].state_enc,
                                  signing_key |-> brains[dir].signing_key_enc])]
            /\ last' = Returned("export_brain", [brain_ref |-> brain_ref, out_file |-> out_file], Some(dir), Ok(None), Snapshot, None)

\* an import that installs the brain although verify_only is set
ImportBrain_always_installs(in_file, name_override, verify_only) ==
    /\ pc = Idle
    /\ UNCHANGED <<guardVars, proxyVars>>
    /\ clock < MaxOps
    /\ clock' = clock + 1
    /\ UNCHANGED <<files, env, pc>>
    /\ IF files[in_file] = None
       THEN /\ UNCHANGED brains
            /\ last' = Returned("import_brain", [in_file |-> in_file, name_override |-> name_override, verify_only |-> verify_only], None, Err("read package"), Snapshot, None)
       ELSE
       LET package == files[in_file][1] IN
       IF ~verify_manifest_signature(package.manifest)
       THEN /\ UNCHANGED brains
            /\ last' = Returned("import_brain", [in_file |-> in_file, name_override |-> name_override, verify_only |-> verify_only], None,
                                Err("manifest signature verification failed"), Snapshot, None)
       ELSE IF sha256_hex(package.state) # package.manifest.state_sha256
       THEN /\ UNCHANGED brains
            /\ last' = Returned("import_brain", [in_file |-> in_file, name_override |-> name_override, verify_only |-> verify_only], None,
                                Err("state checksum mismatch on import package"), Snapshot, None)
       ELSE
       LET m1 == IF name_override = None THEN package.manifest
                 ELSE [package.manifest EXCEPT !.name = name_override[1],
                                               !.updated_at = clock + 1]
           \* on a collision: the id, "-", six characters of a fresh uuid
           brain_id == IF m1.brain_id \in DOMAIN brains
                       THEN m1.brain_id \o <<ToString(clock + 1)>>
                       ELSE m1.brain_id
           manifest == [m1 EXCEPT !.brain_id = brain_id]
       IN
       /\ brains' = MapInsert(brains, brain_id,
                        [brain_json |-> Some(JsonFile(manifest)),
                         state_enc |-> package.state,
                         signing_key_enc |-> package.signing_key])
       /\ last' = Returned("import_brain", [in_file |-> in_file, name_override |-> name_override, verify_only |-> verify_only], Some(brain_id),
                           Ok(Some(summary_of(manifest))), Snapshot, None)

\* name_override is None or Some(name)
ImportBrain(in_file, name_override, verify_only) ==
    /\ pc = Idle
    /\ UNCHANGED <<guardVars, proxyVars>>
    /\ clock < MaxOps
    /\ clock' = clock + 1
    /\ UNCHANGED <<files, env, pc>>
    /\ IF files[in_file] = None
       THEN /\ UNCHANGED brains
            /\ last' = Returned("import_brain", [in_file |-> in_file, name_override |-> name_override, verify_only |-> verify_only], None, Err("read package"), Snapshot, None)
       ELSE
       LET package == files[in_file][1] IN
       IF ~verify_manifest_signature(package.manifest)
       THEN /\ UNCHANGED brains
            /\ last' = Returned("import_brain", [in_file |-> in_file, name_override |-> name_override, verify_only |-> verify_only], None,
                                Err("manifest signature verification failed"), Snapshot, None)
       ELSE IF sha256_hex(package.state) # package.manifest.state_sha256
       THEN /\ UNCHANGED brains
            /\ last' = Returned("import_brain", [in_file |-> in_file, name_override |-> name_override, verify_only |-> verify_only], None,
                                Err("state checksum mismatch on import package"), Snapshot, None)
       ELSE IF verify_only
       THEN /\ UNCHANGED brains
            /\ last' = Returned("import_brain", [in_file |-> in_file, name_override |-> name_override, verify_only |-> verify_only], None, Ok(None), Snapshot, None)
       ELSE
       LET m1 == IF name_override = None THEN package.manifest
                 ELSE [package.manifest EXCEPT !.name = name_override[1],
                                               !.updated_at = clock + 1]
           \* on a collision: the id, "-", six characters of a fresh uuid
           brain_id == IF m1.brain_id \in DOMAIN brains
                       THEN m1.brain_id \o <<ToString(clock + 1)>>
                       ELSE m1.brain_id
           manifest == [m1 EXCEPT !.brain_id = brain_id]
       IN
       /\ brains' = MapInsert(brains, brain_id,
                        [brain_json |-> Some(JsonFile(manifest)),
                         state_enc |-> package.state,
                         signing_key_enc |-> package.signing_key])
       /\ last' = Returned("import_brain", [in_file |-> in_file, name_override |-> name_override, verify_only |-> verify_only], Some(brain_id),
                           Ok(Some(summary_of(manifest))), Snapshot, None)

(***************************************************************************)
(* Inputs                                                                  *)
(***************************************************************************)
Names == {<<"demo">>}

NewBranchNames == {"exp", "dev"}

Strategies == {"Ours", "Theirs", "Manual"}

Predicates == {"p1", "p2"}

\* (subject, predicate) pairs passed to forget_suppress: the subject of every
\* memory object with either predicate, and a subject no object has.
ForgetArgs == {<<"user:x", p>> : p \in Predicates} \cup {<<"user:y", "p1">>}

Grants == {[agent_id |-> "agent-1", model_id |-> "m1", sinks |-> "none"],
           [agent_id |-> "agent-1", model_id |-> "m1", sinks |-> "log"],
           [agent_id |-> "agent-1", model_id |-> "m2", sinks |-> "none"]}

\* (name_override, verify_only) pairs passed to import_brain.
ImportModes == {<<None, FALSE>>, <<None, TRUE>>} \cup {<<Some(<<"demo-copy">>), FALSE>>}

\* (source, target) branch pairs passed to merge.
MergePairs == {<<"exp", "main">>, <<"main", "exp">>}

PackagePaths == {"in.cbrain", "out.cbrain"}

\* Environments of the process: the passphrase variables set or unset.
Envs == {[n \in EnvVars |-> IF n = DEFAULT_SECRET_ENV THEN Some("pw1") ELSE None],
         [n \in EnvVars |-> None]}

\* A package written by another store: a brain whose branches hold memory
\* objects, sealed under the passphrase "pw1" read from secret_env.
Objects(objs) == [id \in {o.id : o \in objs} |-> CHOOSE o \in objs : o.id = id]

O1(value, suppressed) == MemoryObject("o1", "p1", value, suppressed)

O2(predicate) == MemoryObject("o2", predicate, "v1", FALSE)

\* <<objects of main, objects of exp>>
ForeignBranches ==
    {<<Objects({O1("v1", FALSE)}), Objects({O1("v2", FALSE), O2("p2")})>>,
     <<Objects({O1("v1", TRUE), O2("p1")}), Objects({O1("v1", FALSE)})>>,
     <<Objects({O1("v1", FALSE), O2("p1")}), Objects({O1("v1", FALSE)})>>}

ForeignId == <<"ext", "0">>

\* The grants a brain made elsewhere arrives with
ForeignAttachments ==
    <<[agent_id |-> "agent-1", model_id |-> "m2", sinks |-> "log"],
      [agent_id |-> "agent-1", model_id |-> "m1", sinks |-> "none"],
      [agent_id |-> "agent-2", model_id |-> "m1", sinks |-> "none"]>>

foreign_package(main_objects, exp_objects, secret_env) ==
    LET salt == <<"salt", ForeignId>>
        key == derive_key("pw1", salt)
        signing_key == <<"sk", ForeignId>>
        state == [branches |->
                     MapInsert(MapInsert(EmptyMap, "main",
                                   BranchState("main", main_objects, <<"rule-1">>)),
                               "exp", BranchState("exp", exp_objects, <<>>)),
                  attachments |-> ForeignAttachments,
                  audit |-> <<audit_entry("system", "brain.create",
                                          [brain_id |-> ForeignId])>>]
        state_enc == encrypt_json(key, ForeignId, state, <<0, 2>>)
        manifest == [brain_id |-> ForeignId, name |-> <<"ext">>, updated_at |-> 0,
                     active_branch |-> "main", kdf_salt_b64 |-> salt,
                     signing_public_key_b64 |-> verifying_key(signing_key),
                     state_sha256 |-> sha256_hex(state_enc),
                     secret_env_var |-> secret_env, signature_b64 |-> None]
    IN
    [manifest |-> [manifest EXCEPT !.signature_b64 = sign_manifest(manifest, signing_key)],
     state |-> state_enc,
     signing_key |-> encrypt_bytes(key, ForeignId, signing_key, <<0, 1>>)]

ForeignPackages ==
    {foreign_package(b[1], b[2], DEFAULT_SECRET_ENV) : b \in ForeignBranches}

(***************************************************************************)
(* The planner guard                                                       *)
(***************************************************************************)
\* Register names are strings, kept as tuples of characters.
IsSpace(c) == c \in {" ", "\t"}

RECURSIVE trim_start(_)
trim_start(s) ==
    IF s # <<>> /\ IsSpace(Head(s)) THEN trim_start(Tail(s)) ELSE s

RECURSIVE trim_end(_)
trim_end(s) ==
    IF s # <<>> /\ IsSpace(s[Len(s)]) THEN trim_end(SubSeq(s, 1, Len(s) - 1)) ELSE s

\* str::trim
trim(s) == trim_end(trim_start(s))

Range(seq) == {seq[i] : i \in 1..Len(seq)}

\* The ops of a step.  The bindings of an assert are its ValueRefs in the
\* order of their keys.
Fetch(handle_ref) == [kind |-> "fetch", handle_ref |-> handle_ref]
ApplySelector(selector_ref) == [kind |-> "applySelector", selector_ref |-> selector_ref]
Resolve(in_reg) == [kind |-> "resolve", in_reg |-> in_reg]
Filter(in_reg) == [kind |-> "filter", in_reg |-> in_reg]
Join(left_reg, right_reg) == [kind |-> "join", left_reg |-> left_reg, right_reg |-> right_reg]
Project(in_reg) == [kind |-> "project", in_reg |-> in_reg]
AssertOp(bindings) == [kind |-> "assert", bindings |-> bindings]

\* op is <<>> or <<an op>>
Step(out, op) == [out |-> out, op |-> op]

\* the match on the op of a step: <<>> or <<the error>>
check_op(op, regs, handle_refs, selector_refs) ==
    CASE op.kind = "fetch" ->
            IF op.handle_ref \notin handle_refs THEN Some("unknown handle ref") ELSE None
      [] op.kind = "applySelector" ->
            IF op.selector_ref \notin selector_refs THEN Some("unknown selector ref")
            ELSE None
      [] op.kind \in {"resolve", "filter", "project"} ->
            IF op.in_reg \notin regs THEN Some("input register not defined") ELSE None
      [] op.kind = "join" ->
            IF op.left_reg \notin regs \/ op.right_reg \notin regs
            THEN Some("join registers not defined") ELSE None
      [] op.kind = "assert" ->
            IF \E i \in 1..Len(op.bindings) : op.bindings[i].reg \notin regs
            THEN Some("assert binding register not defined") ELSE None

\* the loop of validate_plan_against_manifest over the steps left, regs being
\* the registers inserted so far
RECURSIVE validate_steps(_, _, _, _)
validate_steps(steps, regs, handle_refs, selector_refs) ==
    IF steps = <<>> THEN Ok(None)
    ELSE
    LET step == Head(steps) IN
    IF trim(step.out) = <<>> THEN Err("step.out is required")
    ELSE IF step.out \in regs THEN Err("register redefined")
    ELSE
    LET inserted == regs \cup {step.out} IN
    IF step.op = None THEN Err("step.op is required")
    ELSE
    LET bad == check_op(step.op[1], inserted, handle_refs, selector_refs) IN
    IF bad # None THEN Err(bad[1])
    ELSE validate_steps(Tail(steps), inserted, handle_refs, selector_refs)

validate_plan_against_manifest(plan, manifest) ==
    validate_steps(plan.steps, {}, Range(manifest.handles), Range(manifest.selectors))

\* The planner guard is called on the plan and the manifest at hand.
Validate ==
    /\ plan_in # None /\ manifest_in # None /\ verdict = None
    /\ UNCHANGED <<storeVars, proxyVars>>
    /\ verdict' = Some(validate_plan_against_manifest(plan_in[1], manifest_in[1]))
    /\ UNCHANGED <<plan_in, manifest_in>>

\* Inputs of the planner guard
R0 == <<"r", "0">>

R1 == <<"r", "1">>

Outs == {<<>>, <<" ">>, R0, R1}

Ops ==
    {None}
    \cup {Some(Fetch(h)) : h \in {"h1", "hx"}}
    \cup {Some(ApplySelector(x)) : x \in {"s1", "sx"}}
    \cup {Some(Resolve(r)) : r \in {R0, R1}}
    \cup {Some(Filter(R0)), Some(Project(R1))}
    \cup {Some(Join(R0, R0)), Some(Join(R0, R1)), Some(Join(R1, R0))}
    \cup {Some(AssertOp(b)) : b \in {<<>>, <<[reg |-> R0]>>, <<[reg |-> R0], [reg |-> R1]>>}}

Steps == {Step(out, op) : out \in Outs, op \in Ops}

RECURSIVE StepSeqs(_)
StepSeqs(n) ==
    IF n = 0 THEN {<<>>}
    ELSE LET shorter == StepSeqs(n - 1) IN
         shorter \cup {Append(q, st) : q \in {x \in shorter : Len(x) = n - 1}, st \in Steps}

Plans == {[steps |-> q] : q \in StepSeqs(MaxSteps)}

Manifests == {[handles |-> <<"h1">>, selectors |-> <<"s1">>],
              [handles |-> <<>>, selectors |-> <<>>]}

(***************************************************************************)
(* Store files read by the proxy                                           *)
(***************************************************************************)
\* read_config: config.json, or no active brain when the file is missing
read_config ==
    IF home.config = None THEN Ok([active_brain |-> None])
    ELSE IF ~home.config[1].parses THEN Err("parse")
    ELSE Ok(home.config[1].val)

read_api_mappings ==
    IF home.api_keys = None THEN Ok([mappings |-> <<>>])
    ELSE IF ~home.api_keys[1].parses THEN Err("parse")
    ELSE Ok(home.api_keys[1].val)

ApiKeyMapping(key_hash, tenant_id, brain_id, subject) ==
    [key_hash |-> key_hash, tenant_id |-> tenant_id, brain_id |-> brain_id,
     subject |-> subject]

\* Ok(<<>>), Ok(<<the first mapping whose key_hash is the key's hash>>) or Err
resolve_api_key(api_key_plain) ==
    LET hash == sha256_hex(api_key_plain)
        mappings == read_api_mappings
    IN
    IF ~mappings.ok THEN mappings
    ELSE LET found == SelectSeq(mappings.val.mappings, LAMBDA m : m.key_hash = hash) IN
         IF found = <<>> THEN Ok(None) ELSE Ok(Some(Head(found)))

\* a map_api_key that pushes the new entry and keeps the key's old one
map_api_key_keeps_old(mappings, api_key_plain, tenant_id, brain_id, subject) ==
    Append(mappings, ApiKeyMapping(sha256_hex(api_key_plain), tenant_id, brain_id, subject))

\* map_api_key on the mappings read: retain the other keys' entries, push
map_api_key(mappings, api_key_plain, tenant_id, brain_id, subject) ==
    LET hash == sha256_hex(api_key_plain) IN
    Append(SelectSeq(mappings, LAMBDA m : m.key_hash # hash),
           ApiKeyMapping(hash, tenant_id, brain_id, subject))

\* map_api_key: read the file, change the list, write the file
MapApiKey(api_key_plain, tenant_id, brain_id, subject) ==
    /\ chat.pc = "idle" /\ pc = Idle
    /\ UNCHANGED <<guardVars, app, chat>>
    /\ clock < MaxOps
    /\ clock' = clock + 1
    /\ UNCHANGED <<brains, files, env, pc>>
    /\ LET args == [api_key_plain |-> api_key_plain, tenant_id |-> tenant_id,
                    brain_id |-> brain_id, subject |-> subject]
           mappings == read_api_mappings
       IN
       IF ~mappings.ok
       THEN /\ home' = home
            /\ last' = Returned("map_api_key", args, None, mappings,
                                [api_keys |-> home.api_keys], None)
       ELSE /\ home' = [home EXCEPT !.api_keys =
                           Some(JsonFile([mappings |->
                               map_api_key(mappings.val.mappings, api_key_plain,
                                           tenant_id, brain_id, subject)]))]
            /\ last' = Returned("map_api_key", args, None, Ok(None),
                                [api_keys |-> home.api_keys], None)

\* a call of resolve_api_key
ResolveApiKey(api_key_plain) ==
    /\ chat.pc = "idle" /\ pc = Idle
    /\ UNCHANGED <<guardVars, proxyVars>>
    /\ clock < MaxOps
    /\ clock' = clock + 1
    /\ UNCHANGED <<brains, files, env, pc>>
    /\ last' = Returned("resolve_api_key", [api_key_plain |-> api_key_plain], None,
                        resolve_api_key(api_key_plain), [api_keys |-> home.api_keys], None)

\* brain_ref is <<>> or <<a ref>>
resolve_brain_or_active(brain_ref) ==
    IF brain_ref # None THEN resolve_brain(brain_ref[1])
    ELSE IF env["CORTEX_BRAIN"] # None THEN resolve_brain(trim(env["CORTEX_BRAIN"][1]))
    ELSE
    LET cfg == read_config IN
    IF ~cfg.ok THEN cfg
    ELSE IF cfg.val.active_brain = None THEN Err("no active brain")
    ELSE resolve_brain(cfg.val.active_brain[1])

(***************************************************************************)
(* The deterministic planner                                               *)
(***************************************************************************)
R2 == <<"r", "2">>

\* a deterministic planner whose project step reads the register of the
\* assert step after it
deterministic_steps_forward_ref(op0) ==
    <<Step(R0, Some(op0)), Step(R1, Some(Project(R2))),
      Step(R2, Some(AssertOp(<<[reg |-> R1]>>)))>>

\* A plan of the deterministic planner: the fetch or applySelector step op0,
\* a project of its register, an assert on the projection.  Left out: the
\* field paths and the assertion type.
deterministic_steps(op0) ==
    <<Step(R0, Some(op0)), Step(R1, Some(Project(R0))),
      Step(R2, Some(AssertOp(<<[reg |-> R1]>>)))>>

deterministic_plan_from_manifest(request_id, subject, manifest) ==
    IF manifest.handles # <<>>
    THEN Ok([request_id |-> request_id,
             steps |-> deterministic_steps(Fetch(Head(manifest.handles))),
             outputs |-> <<R2>>])
    ELSE IF manifest.selectors = <<>>
    THEN Err("manifest has no handles/selectors for deterministic fallback")
    ELSE Ok([request_id |-> request_id,
             steps |-> deterministic_steps(
                           [kind |-> "applySelector",
                            selector_ref |-> Head(manifest.selectors),
                            params |-> [subject |-> subject]]),
             outputs |-> <<R2>>])

\* The deterministic planner is called on the manifest at hand; the guard is
\* then asked about its plan.
PlanDeterministically(request_id, subject) ==
    /\ plan_in = None /\ manifest_in # None /\ verdict = None
    /\ UNCHANGED <<storeVars, proxyVars>>
    /\ LET plan == deterministic_plan_from_manifest(request_id, subject, manifest_in[1]) IN
       IF plan.ok
       THEN plan_in' = Some(plan.val) /\ verdict' = verdict
       ELSE plan_in' = plan_in /\ verdict' = Some(plan)
    /\ UNCHANGED manifest_in

\* Inputs of the deterministic planner
RequestIds == {<<"req-1">>}

PlannerSubjects == {<<"user:local">>, <<"svc">>}

PlannerManifests ==
    {[handles |-> <<"h1">>, selectors |-> <<"s1">>],
     [handles |-> <<"h2", "h1">>, selectors |-> <<>>],
     [handles |-> <<>>, selectors |-> <<"s2", "s1">>],
     [handles |-> <<>>, selectors |-> <<"s1">>],
     [handles |-> <<>>, selectors |-> <<>>]}

(***************************************************************************)
(* The proxy: a chat completion request                                    *)
(***************************************************************************)
ApiError(status, code) == [status |-> status, code |-> code, headers |-> <<>>]

bad_request(code) == ApiError(400, code)

unauthorized(code) == ApiError(401, code)

unavailable(code) == ApiError(503, code)

bad_gateway(code) == ApiError(502, code)

\* HeaderValue::to_str: the value holds visible ASCII only
to_str_ok(value) == \A i \in 1..Len(value) : value[i] # "\\x80"

\* <<>> or <<the rest>>; the six letters and the space are one token here
strip_prefix_Bearer(raw) ==
    IF raw # <<>> /\ Head(raw) = "Bearer " THEN Some(Tail(raw)) ELSE None

\* Ok(<<>>), Ok(<<token>>) or Err(ApiError)
parse_bearer(headers) ==
    IF headers.authorization = None THEN Ok(None)
    ELSE
    LET value == headers.authorization[1] IN
    IF ~to_str_ok(value) THEN Err(unauthorized("invalid_auth_header"))
    ELSE
    LET token == strip_prefix_Bearer(value) IN
    IF token = None THEN Err(unauthorized("invalid_auth_header"))
    ELSE IF trim(token[1]) = <<>> THEN Err(unauthorized("invalid_auth_header"))
    ELSE Ok(Some(trim(token[1])))

\* a resolve_context that lets the user field of the body override the
\* subject of the API key mapping
resolve_context_user_first(headers, request) ==
    LET maybe_api_key == parse_bearer(headers)
        user == IF request.user # None /\ trim(request.user[1]) # <<>>
                THEN request.user ELSE None
    IN
    IF ~maybe_api_key.ok THEN maybe_api_key
    ELSE IF maybe_api_key.val # None
    THEN LET mapping == resolve_api_key(maybe_api_key.val[1]) IN
         IF ~mapping.ok THEN Err(bad_gateway("auth_lookup_failed"))
         ELSE IF mapping.val = None THEN Err(unauthorized("auth_failed"))
         ELSE Ok([subject |-> IF user # None THEN user[1] ELSE mapping.val[1].subject])
    ELSE IF ~resolve_brain_or_active(app.default_brain).ok
    THEN Err(unauthorized("auth_required"))
    ELSE Ok([subject |-> IF user # None THEN user[1] ELSE <<"user:local">>])

\* Ok(RequestContext) or Err(ApiError)
resolve_context(headers, request) ==
    LET maybe_api_key == parse_bearer(headers) IN
    IF ~maybe_api_key.ok THEN maybe_api_key
    ELSE IF maybe_api_key.val # None
    THEN LET mapping == resolve_api_key(maybe_api_key.val[1]) IN
         IF ~mapping.ok THEN Err(bad_gateway("auth_lookup_failed"))
         ELSE IF mapping.val = None THEN Err(unauthorized("auth_failed"))
         ELSE Ok([subject |-> mapping.val[1].subject])
    ELSE IF ~resolve_brain_or_active(app.default_brain).ok
    THEN Err(unauthorized("auth_required"))
    ELSE Ok([subject |-> IF request.user # None /\ trim(request.user[1]) # <<>>
                         THEN request.user[1] ELSE <<"user:local">>])

eq_ignore_ascii_case_user(role) == role \in {"user", "User", "USER"}

\* the content of the last message whose role is user, if it is text
extract_user_message(request) ==
    LET users == SelectSeq(request.messages,
                           LAMBDA m : eq_ignore_ascii_case_user(m.role))
    IN IF users = <<>> THEN None ELSE users[Len(users)].content

build_plan_only_prompt(user_message, manifest) ==
    [user_message |-> user_message, handles |-> manifest.handles,
     selectors |-> manifest.selectors]

\* ExecutionStatus::try_from(status).unwrap_or(ExecutionStatus::Unspecified)
ExecutionStatus(status) ==
    CASE status = 1 -> "Ok"
      [] status = 2 -> "Rejected"
      [] status = 3 -> "Stall"
      [] status = 4 -> "AuthDenied"
      [] status = 5 -> "RangeExceeded"
      [] OTHER -> "Unspecified"

as_str_name(status) ==
    CASE status = "Ok" -> <<"OK">>
      [] status = "Rejected" -> <<"REJECTED">>
      [] status = "Stall" -> <<"STALL">>
      [] status = "AuthDenied" -> <<"AUTH_DENIED">>
      [] status = "RangeExceeded" -> <<"RANGE_EXCEEDED">>
      [] status = "Unspecified" -> <<"UNSPECIFIED">>

\* ErrorCode::try_from(err.code).unwrap_or(ErrorCode::Unspecified).as_str_name()
error_code_name(err) ==
    CASE err.code = 1 -> "TYPE_MISMATCH"
      [] OTHER -> "UNSPECIFIED"

\* HeaderValue::from_str: no control character in the value
HeaderValue_from_str_ok(value) == \A i \in 1..Len(value) : value[i] # "\n"

\* a push_header that keeps a value HeaderValue::from_str refuses
push_header_unchecked(headers, name, value) ==
    Append(headers, <<name, value>>)

push_header(headers, name, value) ==
    IF HeaderValue_from_str_ok(value) THEN Append(headers, <<name, value>>) ELSE headers

cortex_headers(execute, plan_source) ==
    LET h1 == push_header(<<>>, "x-cortex-status",
                          as_str_name(ExecutionStatus(execute.status)))
        h2 == push_header(h1, "x-cortex-plan-source", <<plan_source>>)
        h3 == IF execute.proof = None THEN h2
              ELSE push_header(push_header(h2, "x-cortex-semantic-root",
                                           execute.proof[1].semantic_root),
                               "x-cortex-trace-root", execute.proof[1].trace_root)
        h4 == IF execute.error = None THEN h3
              ELSE push_header(h3, "x-cortex-error-code", <<error_code_name(execute.error[1])>>)
    IN
    IF execute.stall = None THEN h4
    ELSE push_header(push_header(h4, "x-cortex-stall-handle",
                                 <<execute.stall[1].handle_ref>>),
                     "x-cortex-stall-availability", <<execute.stall[1].availability>>)

\* HeaderMap::insert, one header after the other: name -> value
RECURSIVE inserted(_)
inserted(headers) ==
    IF headers = <<>> THEN EmptyMap
    ELSE MapInsert(inserted(SubSeq(headers, 1, Len(headers) - 1)),
                   headers[Len(headers)][1], headers[Len(headers)][2])

\* The HTTP response: of a chat completion, and of an ApiError
completion(content, envelope, headers_out) ==
    [status |-> 200, content |-> Some(content), code |-> None, cortex |-> Some(envelope),
     headers |-> inserted(headers_out)]

into_response(err) ==
    [status |-> err.status, content |-> None, code |-> Some(err.code), cortex |-> None,
     headers |-> inserted(err.headers)]

\* execute.error.as_ref().map(error_code_name).unwrap_or_else(|| default)
kernel_code(execute, default) ==
    IF execute.error = None THEN default ELSE error_code_name(execute.error[1])

\* the content of an assistant message: a status Ok reply's verified blocks that keeps only the first
chat_content_first_block(execute) ==
    LET verified_blocks == IF execute.rendered = None THEN <<>>
                           ELSE execute.rendered[1].verified_blocks
    IN IF verified_blocks = <<>> THEN <<"No verified output.">> ELSE verified_blocks[1]

\* the content of the assistant message of a status Ok reply
chat_content(execute) ==
    LET verified_blocks == IF execute.rendered = None THEN <<>>
                           ELSE execute.rendered[1].verified_blocks
    IN IF verified_blocks = <<>> THEN <<"No verified output.">>
       ELSE join(verified_blocks, <<"\n\n">>)

map_execute_response(execute, request, plan_prompt, plan_source, headers_out) ==
    LET status == ExecutionStatus(execute.status) IN
    CASE status = "Ok" ->
            completion(chat_content(execute),
                       [status |-> as_str_name(status),
                        semantic_root |-> IF execute.proof = None THEN None
                                          ELSE Some(execute.proof[1].semantic_root),
                        trace_root |-> IF execute.proof = None THEN None
                                       ELSE Some(execute.proof[1].trace_root),
                        plan_prompt |-> Some(plan_prompt),
                        plan_source |-> Some(plan_source)],
                       headers_out)
      [] status = "Rejected" ->
            into_response([bad_request(kernel_code(execute, "rejected"))
                              EXCEPT !.headers = headers_out])
      [] status = "Stall" ->
            into_response([unavailable(kernel_code(execute, "stall"))
                              EXCEPT !.headers = headers_out])
      [] status = "AuthDenied" ->
            into_response([ApiError(403, kernel_code(execute, "auth_denied"))
                              EXCEPT !.headers = headers_out])
      [] status = "RangeExceeded" ->
            into_response([ApiError(429, kernel_code(execute, "range_exceeded"))
                              EXCEPT !.headers = headers_out])
      [] status = "Unspecified" ->
            into_response([bad_gateway(kernel_code(execute, "unknown_status"))
                              EXCEPT !.headers = headers_out])

\* handle_chat_completion before a request arrives
ChatIdle ==
    [pc |-> "idle", request |-> None, headers |-> None, auth |-> None,
     user_message |-> None, rpcs |-> <<>>, replies |-> <<>>, manifest |-> None,
     plan |-> None, plan_source |-> None, planner_output |-> None, execute |-> None,
     response |-> None]

\* The handler returns the response r.
respond(c, r) == [c EXCEPT !.pc = "done", !.response = Some(r)]

\* The handler issues the kernel RPC rpc and awaits its reply.
call(c, rpc, req) ==
    [c EXCEPT !.pc = rpc, !.rpcs = Append(@, [rpc |-> rpc, request |-> req])]

\* The RPC awaited has returned result.
returned(c, result) == [c EXCEPT !.replies = Append(@, result)]

\* the X-Cortex-Plan header: base64, UTF-8, a JSON object, a plan
parse_byo_plan(header) ==
    IF ~header.parses THEN Err(bad_request("invalid_plan_json")) ELSE Ok(header.val)

\* a handler that calls execute without asking the guard
plan_resolved_unchecked(c, plan, plan_source) ==
    call([c EXCEPT !.plan = Some(plan), !.plan_source = Some(plan_source)],
         "execute", [manifest |-> c.manifest, plan |-> Some(plan)])

\* handle_chat_completion from the plan on: the guard, then execute
plan_resolved(c, plan, plan_source) ==
    LET c1 == [c EXCEPT !.plan = Some(plan), !.plan_source = Some(plan_source)] IN
    IF ~validate_plan_against_manifest(plan, c.manifest[1]).ok
    THEN respond(c1, into_response(bad_request("invalid_plan")))
    ELSE call(c1, "execute", [manifest |-> c.manifest, plan |-> Some(plan)])

\* a resolve_plan that looks at the X-Cortex-Plan header in mode ByoHeader only
resolve_plan_mode_first(c) ==
    CASE app.planner.mode = "ByoHeader" ->
            IF c.headers[1].plan = None
            THEN respond(c, into_response(bad_request("plan_header_required")))
            ELSE LET plan == parse_byo_plan(c.headers[1].plan[1]) IN
                 IF ~plan.ok THEN respond(c, into_response(plan.err))
                 ELSE plan_resolved(c, plan.val, "byo_header")
      [] app.planner.mode = "Fallback" ->
            LET plan == deterministic_plan_from_manifest(None, c.auth[1].val.subject,
                                                         c.manifest[1])
            IN IF ~plan.ok THEN respond(c, into_response(bad_request("fallback_plan_failed")))
               ELSE plan_resolved(c, plan.val, "fallback")
      [] app.planner.mode = "OpenAi" ->
            IF app.planner.api_key = None
            THEN respond(c, into_response(bad_gateway("planner_auth_missing")))
            ELSE [c EXCEPT !.pc = "planner"]

\* resolve_plan, up to the call of the external planner
resolve_plan(c) ==
    IF c.headers[1].plan # None
    THEN LET plan == parse_byo_plan(c.headers[1].plan[1]) IN
         IF ~plan.ok THEN respond(c, into_response(plan.err))
         ELSE plan_resolved(c, plan.val, "byo_header")
    ELSE
    CASE app.planner.mode = "ByoHeader" ->
            respond(c, into_response(bad_request("plan_header_required")))
      [] app.planner.mode = "Fallback" ->
            LET plan == deterministic_plan_from_manifest(None, c.auth[1].val.subject,
                                                         c.manifest[1])
            IN IF ~plan.ok THEN respond(c, into_response(bad_request("fallback_plan_failed")))
               ELSE plan_resolved(c, plan.val, "fallback")
      [] app.planner.mode = "OpenAi" ->
            IF app.planner.api_key = None
            THEN respond(c, into_response(bad_gateway("planner_auth_missing")))
            ELSE [c EXCEPT !.pc = "planner"]

\* A request arrives: the stream flag, the user message, authentication, and
\* the call of append_event.
\* a handler that hands the user message to the kernel although the caller
\* failed authentication
HandleChatCompletion_appends_unauthenticated(headers, request) ==
    /\ chat.pc = "idle"
    /\ UNCHANGED <<storeVars, guardVars>>
    /\ UNCHANGED <<home, app>>
    /\ LET c0 == [chat EXCEPT !.request = Some(request), !.headers = Some(headers)] IN
       IF request.stream = Some(TRUE)
       THEN chat' = respond(c0, into_response(bad_request("stream_not_supported")))
       ELSE
       LET user_message == extract_user_message(request) IN
       IF user_message = None
       THEN chat' = respond(c0, into_response(bad_request("missing_user_message")))
       ELSE
       LET ctx == resolve_context(headers, request)
           c1 == [c0 EXCEPT !.auth = Some(ctx), !.user_message = user_message]
       IN
       chat' = call(c1, "append_event",
                    [subject |-> IF ctx.ok THEN ctx.val.subject ELSE <<"anonymous">>,
                     text |-> user_message[1]])

HandleChatCompletion(headers, request) ==
    /\ chat.pc = "idle"
    /\ UNCHANGED <<storeVars, guardVars>>
    /\ UNCHANGED <<home, app>>
    /\ LET c0 == [chat EXCEPT !.request = Some(request), !.headers = Some(headers)] IN
       IF request.stream = Some(TRUE)
       THEN chat' = respond(c0, into_response(bad_request("stream_not_supported")))
       ELSE
       LET user_message == extract_user_message(request) IN
       IF user_message = None
       THEN chat' = respond(c0, into_response(bad_request("missing_user_message")))
       ELSE
       LET ctx == resolve_context(headers, request)
           c1 == [c0 EXCEPT !.auth = Some(ctx), !.user_message = user_message]
       IN
       IF ~ctx.ok THEN chat' = respond(c1, into_response(ctx.err))
       ELSE chat' = call(c1, "append_event",
                         [subject |-> ctx.val.subject, text |-> user_message[1]])

AppendEventReturns(result) ==
    /\ chat.pc = "append_event"
    /\ UNCHANGED <<storeVars, guardVars>>
    /\ UNCHANGED <<home, app>>
    /\ LET c == returned(chat, result) IN
       IF ~result.ok
       THEN chat' = respond(c, into_response(bad_gateway("append_event_failed")))
       ELSE chat' = call(c, "get_manifest", None)

\* get_manifest returns; the plan is resolved up to the first await.
GetManifestReturns(result) ==
    /\ chat.pc = "get_manifest"
    /\ UNCHANGED <<storeVars, guardVars>>
    /\ UNCHANGED <<home, app>>
    /\ LET c == returned(chat, result) IN
       IF ~result.ok
       THEN chat' = respond(c, into_response(bad_gateway("get_manifest_failed")))
       ELSE IF result.val.manifest = None
       THEN chat' = respond(c, into_response(bad_gateway("manifest_missing")))
       ELSE chat' = resolve_plan([c EXCEPT !.manifest = result.val.manifest])

\* request_openai_plan from the planner's HTTP response on
PlannerReturns(output) ==
    /\ chat.pc = "planner"
    /\ UNCHANGED <<storeVars, guardVars>>
    /\ UNCHANGED <<home, app>>
    /\ LET c == [chat EXCEPT !.planner_output = Some(output)] IN
       IF ~output.ok
       THEN chat' = respond(c, into_response(bad_gateway("planner_http_failed")))
       ELSE IF ~output.val.parses
       THEN chat' = respond(c, into_response(bad_request("planner_output_invalid")))
       ELSE IF ~validate_plan_against_manifest(output.val.val, c.manifest[1]).ok
       THEN chat' = respond([c EXCEPT !.plan = Some(output.val.val)],
                            into_response(bad_request("invalid_plan")))
       ELSE chat' = plan_resolved(c, output.val.val, "openai")

ExecuteReturns(result) ==
    /\ chat.pc = "execute"
    /\ UNCHANGED <<storeVars, guardVars>>
    /\ UNCHANGED <<home, app>>
    /\ LET c == returned(chat, result) IN
       IF ~result.ok
       THEN chat' = respond(c, into_response(bad_gateway("execute_failed")))
       ELSE
       LET execute == result.val
           plan_prompt == build_plan_only_prompt(c.user_message[1], c.manifest[1])
           headers_out == cortex_headers(execute, c.plan_source[1])
       IN chat' = respond([c EXCEPT !.execute = Some(execute)],
                          map_execute_response(execute, c.request[1], plan_prompt,
                                               c.plan_source[1], headers_out))

(***************************************************************************)
(* Inputs of the proxy                                                     *)
(***************************************************************************)
\* The brain the proxy's store holds, and a directory whose brain.json does
\* not parse
DemoId == <<"demo", "1">>

Demo == new_brain(DemoId, <<"demo">>, DEFAULT_SECRET_ENV, "pw1", 0)

Corrupt == [brain_json |-> Some(Unparsable), state_enc |-> None, signing_key_enc |-> None]

ProxyStores ==
    {EmptyMap,
     MapInsert(EmptyMap, DemoId, Demo),
     MapInsert(MapInsert(EmptyMap, DemoId, Demo), <<"torn", "2">>, Corrupt)}

DefaultBrains == {None, Some(<<"demo">>), Some(<<"ghost">>)}

BrainOverrides == {None, Some(<<" ", "demo">>), Some(<<"ghost">>)}

ActiveBrains == {None, Some(DemoId)}

ApiKeyFiles ==
    {None,
     Some(JsonFile([mappings |-> <<ApiKeyMapping(sha256_hex(<<"k1">>), "local", DemoId, <<"svc">>)>>]))}

PlannerConfigs ==
    {[mode |-> "Fallback", api_key |-> None],
     [mode |-> "ByoHeader", api_key |-> None],
     [mode |-> "OpenAi", api_key |-> None],
     [mode |-> "OpenAi", api_key |-> Some(<<"pk">>)]}

AuthHeaders ==
    {None, Some(<<"Bearer ", "k1">>), Some(<<"Bearer ", " ", "k1", " ">>),
     Some(<<"Bearer ", "k2">>), Some(<<"Bearer ", " ">>), Some(<<"bearer ", "k1">>),
     Some(<<"Bearer ", "\\x80">>)}

GoodPlan == [steps |-> <<Step(R0, Some(Fetch("h1"))), Step(R1, Some(Resolve(R0)))>>]

SelfPlan == [steps |-> <<Step(R0, Some(Resolve(R0)))>>]

BadPlan == [steps |-> <<Step(R0, Some(Fetch("hx")))>>]

PlanTexts == {Unparsable, JsonFile(GoodPlan), JsonFile(SelfPlan), JsonFile(BadPlan)}

UserText == <<"what do I prefer?">>

Message(role, content) == [role |-> role, content |-> content]

Body(stream, messages, user) == [stream |-> stream, messages |-> messages, user |-> user]

PlainMessages == <<Message("system", Some(<<"be brief">>)), Message("user", Some(UserText))>>

\* (headers, request) pairs: every Authorization header, every plan header,
\* every shape of body
ChatRequests ==
    {<<[authorization |-> a, plan |-> None], Body(None, PlainMessages, u)>> :
        a \in AuthHeaders, u \in {None, Some(<<"alice">>), Some(<<" ">>)}}
    \cup {<<[authorization |-> a, plan |-> Some(t)], Body(Some(FALSE), PlainMessages, None)>> :
        a \in {None, Some(<<"Bearer ", "k1">>)}, t \in PlanTexts}
    \cup {<<[authorization |-> None, plan |-> None], b>> :
        b \in {Body(Some(TRUE), PlainMessages, None),
               Body(None, <<>>, None),
               Body(None, <<Message("User", None)>>, None),
               Body(None, <<Message("USER", Some(UserText)), Message("assistant", None)>>,
                    None)}}

ManifestReplies ==
    {Err("rpc"), Ok([manifest |-> None])}
    \cup {Ok([manifest |-> Some(m)]) :
            m \in Manifests \cup {[handles |-> <<>>, selectors |-> <<"s1">>]}}

PlannerOutputs == {Err("http")} \cup {Ok(t) : t \in PlanTexts}

Block1 == <<"Verified: user prefers tea.">>

Block2 == <<"Verified: user lives in Oslo.">>

Rendered == {None, Some([verified_blocks |-> <<>>]), Some([verified_blocks |-> <<Block1>>]),
             Some([verified_blocks |-> <<Block2, Block1>>]),
             Some([verified_blocks |-> <<UserText>>])}

Proofs == {None, Some([semantic_root |-> <<"ab12">>, trace_root |-> <<"cd34">>]),
           Some([semantic_root |-> <<"ab12", "\n">>, trace_root |-> <<"cd34">>])}

ExecuteResponse(status, rendered, proof, error, stall) ==
    [status |-> status, rendered |-> rendered, proof |-> proof, error |-> error,
     stall |-> stall]

\* the status numbers of the enum, and one that is none of them
StatusNumbers == 0..6

ExecuteReplies ==
    {Err("rpc")}
    \cup {Ok(ExecuteResponse(n, Some([verified_blocks |-> <<Block1>>]), p, None, None)) :
            n \in StatusNumbers, p \in Proofs}
    \cup {Ok(ExecuteResponse(1, r, None, None, None)) : r \in Rendered}
    \cup {Ok(ExecuteResponse(2, None, None, Some([code |-> 1]), None)),
          Ok(ExecuteResponse(3, None, None, None,
                             Some([handle_ref |-> "h1", availability |-> "PENDING"])))}

(***************************************************************************)
(* The store: specification                                                *)
(***************************************************************************)
Init ==
    /\ brains = EmptyMap
    /\ \E package \in ForeignPackages :
          files = [p \in PackagePaths |->
                      IF p = "in.cbrain" THEN Some(package) ELSE None]
    /\ env \in Envs
    /\ clock = 0
    /\ pc = Idle
    /\ last = Returned("none", None, None, Ok(None),
                       [brains |-> EmptyMap], None)
    /\ plan_in = None /\ manifest_in = None /\ verdict = None
    /\ home = [config |-> None, api_keys |-> None]
    /\ app = [default_brain |-> None, planner |-> [mode |-> "Fallback", api_key |-> None]]
    /\ chat = ChatIdle

Next ==
    \/ \E name \in Names : CreateBrain(name, None)
    \/ \E brain_ref \in DOMAIN brains : ExportBrain(brain_ref, "out.cbrain")
    \/ \E in_file \in PackagePaths, mode \in ImportModes :
          ImportBrain(in_file, mode[1], mode[2])
    \/ \E brain_ref \in DOMAIN brains, new_branch \in NewBranchNames :
          Branch(brain_ref, new_branch)
    \/ \E brain_ref \in DOMAIN brains, pair \in MergePairs, strategy \in Strategies :
          Merge(brain_ref, pair[1], pair[2], strategy)
    \/ \E brain_ref \in DOMAIN brains, about \in ForgetArgs :
          ForgetSuppress(brain_ref, about[1], about[2])
    \/ \E brain_ref \in DOMAIN brains, grant \in Grants : Attach(brain_ref, grant)
    \/ \E brain_ref \in DOMAIN brains, model \in {None, Some("m1")} :
          Detach(brain_ref, "agent-1", model)
    \/ \E brain_ref \in DOMAIN brains : AuditTrace(brain_ref)
    \/ WriteBrainJson
    \/ WriteStateEnc
    \/ Crash

Spec == Init /\ [][Next]_vars

(***************************************************************************)
(* The planner guard: specification                                        *)
(***************************************************************************)
InitPlan ==
    /\ brains = EmptyMap
    /\ files = [p \in PackagePaths |-> None]
    /\ env = [n \in EnvVars |-> None]
    /\ clock = 0
    /\ pc = Idle
    /\ last = Returned("none", None, None, Ok(None),
                       [brains |-> EmptyMap], None)
    /\ \/ /\ \E p \in Plans : plan_in = Some(p)
          /\ \E m \in Manifests : manifest_in = Some(m)
       \/ /\ plan_in = None
          /\ \E m \in PlannerManifests : manifest_in = Some(m)
    /\ verdict = None
    /\ home = [config |-> None, api_keys |-> None]
    /\ app = [default_brain |-> None, planner |-> [mode |-> "Fallback", api_key |-> None]]
    /\ chat = ChatIdle

NextPlan ==
    \/ Validate
    \/ \E request_id \in RequestIds, subject \in PlannerSubjects :
          PlanDeterministically(request_id, subject)

SpecPlan == InitPlan /\ [][NextPlan]_vars

(***************************************************************************)
(* The proxy: specification                                                *)
(***************************************************************************)
\* The proxy starts on a store: either any store, default brain, override and
\* active brain under the fallback planner, or the demo brain made active
\* under any planner.
InitProxy ==
    /\ files = [p \in PackagePaths |-> None]
    /\ clock = 0
    /\ pc = Idle
    /\ last = Returned("none", None, None, Ok(None),
                       [brains |-> EmptyMap], None)
    /\ plan_in = None /\ manifest_in = None /\ verdict = None
    /\ chat = ChatIdle
    /\ \/ /\ brains \in ProxyStores
          /\ \E o \in BrainOverrides :
                env = [n \in EnvVars |-> IF n = "CORTEX_BRAIN" THEN o
                                         ELSE IF n = DEFAULT_SECRET_ENV THEN Some("pw1")
                                         ELSE None]
          /\ \E a \in ActiveBrains, k \in ApiKeyFiles :
                home = [config |-> IF a = None THEN None
                                   ELSE Some(JsonFile([active_brain |-> a])),
                        api_keys |-> k]
          /\ \E d \in DefaultBrains :
                app = [default_brain |-> d,
                       planner |-> [mode |-> "Fallback", api_key |-> None]]
       \/ /\ brains = MapInsert(EmptyMap, DemoId, Demo)
          /\ env = [n \in EnvVars |-> IF n = DEFAULT_SECRET_ENV THEN Some("pw1") ELSE None]
          /\ home = [config |-> Some(JsonFile([active_brain |-> Some(DemoId)])),
                     api_keys |-> CHOOSE k \in ApiKeyFiles : k # None]
          /\ \E planner \in PlannerConfigs :
                app = [default_brain |-> None, planner |-> planner]

NextProxy ==
    \/ \E r \in ChatRequests : HandleChatCompletion(r[1], r[2])
    \/ \E result \in {Ok(None), Err("rpc")} : AppendEventReturns(result)
    \/ \E result \in ManifestReplies : GetManifestReturns(result)
    \/ \E output \in PlannerOutputs : PlannerReturns(output)
    \/ \E result \in ExecuteReplies : ExecuteReturns(result)

SpecProxy == InitProxy /\ [][NextProxy]_vars

(***************************************************************************)
(* The API key mappings: specification                                     *)
(***************************************************************************)
ApiKeys == {<<"k1">>, <<"k2">>}

\* The keys looked up: the keys mapped, and one that never is
LookupKeys == ApiKeys \cup {<<"k3">>}

\* The store starts without auth/api_keys.json, or with one that does not parse.
InitKeys ==
    /\ brains = EmptyMap
    /\ files = [p \in PackagePaths |-> None]
    /\ env = [n \in EnvVars |-> None]
    /\ clock = 0
    /\ pc = Idle
    /\ last = Returned("none", None, None, Ok(None), [api_keys |-> None], None)
    /\ plan_in = None /\ manifest_in = None /\ verdict = None
    /\ \E k \in {None, Some(Unparsable)} : home = [config |-> None, api_keys |-> k]
    /\ app = [default_brain |-> None, planner |-> [mode |-> "Fallback", api_key |-> None]]
    /\ chat = ChatIdle

NextKeys ==
    \/ \E k \in ApiKeys, brain_id \in {DemoId, <<"work", "2">>},
           subject \in {<<"svc">>, <<"ops">>} :
          MapApiKey(k, "local", brain_id, subject)
    \/ \E k \in LookupKeys : ResolveApiKey(k)

SpecKeys == InitKeys /\ [][NextKeys]_vars

(***************************************************************************)
(* The store on its own: no package from elsewhere, so that every brain    *)
(* comes from create_brain or from the import of an export of this store.  *)
(***************************************************************************)
InitOwn ==
    /\ brains = EmptyMap
    /\ files = [f \in PackagePaths |-> None]
    /\ env \in Envs
    /\ clock = 0
    /\ pc = Idle
    /\ last = Returned("none", None, None, Ok(None), [brains |-> EmptyMap], None)
    /\ plan_in = None /\ manifest_in = None /\ verdict = None
    /\ home = [config |-> None, api_keys |-> None]
    /\ app = [default_brain |-> None, planner |-> [mode |-> "Fallback", api_key |-> None]]
    /\ chat = ChatIdle

SpecOwn == InitOwn /\ [][Next]_vars

(***************************************************************************)
(* Two callers in mutate_brain on the same brain.  mutate_brain takes no   *)
(* lock: its reads and its two writes are separate file operations, and    *)
(* those of another caller may fall between any two of them.  Here pc maps *)
(* each caller to its place in mutate_brain.                               *)
(***************************************************************************)
Callers == {"A", "B"}

\* resolve_brain and the first read of load_by_dir: brain.json
mutate_read_manifest(p, request, brain_ref) ==
    /\ pc[p].phase = "idle"
    /\ UNCHANGED <<guardVars, proxyVars>>
    /\ UNCHANGED <<brains, files, env, clock, last>>
    /\ LET summary == resolve_brain(brain_ref) IN
       IF ~summary.ok
       THEN pc' = [pc EXCEPT ![p] = [phase |-> "returned", res |-> summary]]
       ELSE pc' = [pc EXCEPT ![p] =
                       [phase |-> "read_state", op |-> request[1], args |-> request[2],
                        dir |-> summary.val.brain_id,
                        brain_json |-> brains[summary.val.brain_id].brain_json]]

\* The rest of load_by_dir, on the brain.json read before and the state.enc
\* and signing key on disk now; then the closure and the sealing of its result
mutate_read_state(p) ==
    /\ pc[p].phase = "read_state"
    /\ UNCHANGED <<guardVars, proxyVars>>
    /\ clock' = clock + 1
    /\ UNCHANGED <<brains, files, env, last>>
    /\ LET dir == pc[p].dir
           loaded == load_from([brains EXCEPT ![dir].brain_json = pc[p].brain_json], dir)
       IN
       IF ~loaded.ok
       THEN pc' = [pc EXCEPT ![p] = [phase |-> "returned", res |-> loaded]]
       ELSE
       LET done == closure(pc[p].op, pc[p].args, loaded.val.manifest, loaded.val.state) IN
       IF ~done.ok
       THEN pc' = [pc EXCEPT ![p] = [phase |-> "returned", res |-> done]]
       ELSE
       LET sealed == reseal(loaded.val.manifest, done.val.state,
                            loaded.val.signing_key, clock + 1)
       IN
       pc' = [pc EXCEPT ![p] =
                 [phase |-> "write_manifest", dir |-> dir,
                  manifest |-> sealed.manifest, state_enc |-> sealed.state_enc,
                  ret |-> done.val.ret]]

\* write_json(dir.join("brain.json"), &manifest)
mutate_write_manifest(p) ==
    /\ pc[p].phase = "write_manifest"
    /\ UNCHANGED <<guardVars, proxyVars>>
    /\ brains' = [brains EXCEPT ![pc[p].dir].brain_json = Some(JsonFile(pc[p].manifest))]
    /\ pc' = [pc EXCEPT ![p].phase = "write_state"]
    /\ UNCHANGED <<files, env, clock, last>>

\* write_json(dir.join("state.enc"), &state_enc), and Ok(())
mutate_write_state(p) ==
    /\ pc[p].phase = "write_state"
    /\ UNCHANGED <<guardVars, proxyVars>>
    /\ brains' = [brains EXCEPT ![pc[p].dir].state_enc = pc[p].state_enc]
    /\ pc' = [pc EXCEPT ![p] = [phase |-> "returned", res |-> Ok(pc[p].ret)]]
    /\ UNCHANGED <<files, env, clock, last>>

\* A store with the brain demo, its passphrase set, and no call made yet
InitRace ==
    /\ brains = MapInsert(EmptyMap, DemoId, Demo)
    /\ files = [f \in PackagePaths |-> None]
    /\ env = [n \in EnvVars |-> IF n = DEFAULT_SECRET_ENV THEN Some("pw1") ELSE None]
    /\ clock = 0
    /\ pc = [p \in Callers |-> [phase |-> "idle"]]
    /\ last = Returned("none", None, None, Ok(None), [brains |-> EmptyMap], None)
    /\ plan_in = None /\ manifest_in = None /\ verdict = None
    /\ home = [config |-> None, api_keys |-> None]
    /\ app = [default_brain |-> None, planner |-> [mode |-> "Fallback", api_key |-> None]]
    /\ chat = ChatIdle

NextRace ==
    \* the calls made: (operation, arguments)
    \/ \E p \in Callers,
           request \in {<<"branch", [new_branch |-> "exp"]>>,
                        <<"attach", [grant |-> [agent_id |-> "agent-1",
                                                model_id |-> "m1", sinks |-> "none"]]>>} :
          mutate_read_manifest(p, request, DemoId)
    \/ \E p \in Callers : mutate_read_state(p)
    \/ \E p \in Callers : mutate_write_manifest(p)
    \/ \E p \in Callers : mutate_write_state(p)

SpecRace == InitRace /\ [][NextRace]_vars

(***************************************************************************)
(* Properties of the store                                                 *)
(***************************************************************************)
\* The operations that run through mutate_brain
Mutations == {"branch", "merge", "forget_suppress", "attach", "detach"}

\* brain.json and state.enc of the directory dir in the brains directory store
TwoFiles(store, dir) ==
    [brain_json |-> store[dir].brain_json, state_enc |-> store[dir].state_enc]

\* C1: once a mutation run through mutate_brain has ended, by returning, by
\* a failing step or by the process stopping between its two writes, the
\* brain's brain.json and state.enc are both the files from before the call
\* or both the files the call set out to write.
C1_MutationAllOrNothing ==
    (pc = Idle /\ last.op \in Mutations /\ last.dir # None) =>
        LET now == TwoFiles(brains, last.dir[1])
            before == TwoFiles(last.pre.brains, last.dir[1])
        IN \/ now = before
           \/ last.new # None /\ now = last.new[1]

\* C2 (I1): the manifest of every brain directory of the store carries a
\* signature that verifies against its embedded public key over the manifest
\* with the signature field emptied, imports with a name_override or an id
\* collision included.
C2_EveryManifestSignatureVerifies ==
    \A d \in DOMAIN brains :
        (brains[d].brain_json # None /\ brains[d].brain_json[1].parses) =>
            verify_manifest_signature(brains[d].brain_json[1].val)

\* C3: after create_brain and after every successful mutation the manifest's
\* state_sha256 is the SHA-256 of the blob stored in state.enc.
C3_StateDigestMatches ==
    (pc = Idle /\ last.res.ok /\ last.dir # None
       /\ last.op \in {"create_brain"} \cup Mutations) =>
        brains[last.dir[1]].brain_json[1].val.state_sha256
            = sha256_hex(brains[last.dir[1]].state_enc)

\* a successful mutation has replaced state.enc
C3_Witness ==
    /\ pc = Idle /\ last.res.ok /\ last.op \in Mutations /\ last.dir # None
    /\ brains[last.dir[1]].state_enc # last.pre.brains[last.dir[1]].state_enc

\* The state held by the package at path, opened with the passphrase the
\* environment holds for the package's secret_env_var.
package_state(path) ==
    LET package == files[path][1]
        manifest == package.manifest
    IN
    IF env[manifest.secret_env_var] = None THEN Err("missing secret env var")
    ELSE decrypt_json(derive_key(env[manifest.secret_env_var][1], manifest.kdf_salt_b64),
                      manifest.brain_id, package.state)

\* C4: after export_brain(B) and a non-verify-only import_brain of the
\* exported file, renamed through name_override or re-identified after an id
\* collision or neither, the imported brain loads with B's passphrase and its
\* state equals B's state.
C4_ExportImportRoundTrip ==
    (pc = Idle /\ last.op = "import_brain" /\ last.res.ok /\ last.dir # None
       /\ last.args.in_file = "out.cbrain" /\ package_state("out.cbrain").ok) =>
        /\ load_by_dir(last.dir[1]).ok
        /\ load_by_dir(last.dir[1]).val.state = package_state("out.cbrain").val

\* The merge that last ran found, in the brain as it was persisted before the
\* call, an id present in source and target with differing (value, suppressed).
merge_met_conflict ==
    /\ last.op = "merge" /\ last.dir # None
    /\ LET loaded == load_from(last.pre.brains, last.dir[1]) IN
       /\ loaded.ok
       /\ last.args.source \in DOMAIN loaded.val.state.branches
       /\ last.args.target \in DOMAIN loaded.val.state.branches
       /\ LET src == loaded.val.state.branches[last.args.source].memory_objects
              tgt == loaded.val.state.branches[last.args.target].memory_objects
          IN \E id \in DOMAIN src \cap DOMAIN tgt :
                <<src[id].value, src[id].suppressed>>
                    # <<tgt[id].value, tgt[id].suppressed>>

\* C5: a merge under strategy Manual that finds a conflicting id fails and
\* leaves every file of the store as it was: the target branch gains no
\* object, not even a source-only one, and the audit log gains no entry.
C5_ManualConflictPersistsNothing ==
    (pc = Idle /\ merge_met_conflict /\ last.args.strategy = "Manual") =>
        /\ ~last.res.ok
        /\ brains = last.pre.brains

\* a Manual merge met a conflict while the source also held an id the
\* target lacks
C5_Witness ==
    /\ pc = Idle /\ merge_met_conflict /\ last.args.strategy = "Manual"
    /\ ~last.res.ok /\ last.res.err = "merge conflicts"
    /\ LET state == load_by_dir(last.dir[1]).val.state IN
       \E id \in DOMAIN state.branches[last.args.source].memory_objects :
           id \notin DOMAIN state.branches[last.args.target].memory_objects

\* The digest of the directory's state.enc differs from the state_sha256 of
\* its manifest.
digest_differs(store, dir) ==
    sha256_hex(store[dir].state_enc) # store[dir].brain_json[1].val.state_sha256

\* C11: export_brain of a brain whose state.enc, as persisted, has a digest
\* other than the manifest's state_sha256 refuses, and the package file it
\* was to write does not hold that brain.
C11_ExportRefusesOnDigestMismatch ==
    (last.op = "export_brain" /\ last.dir # None
       /\ digest_differs(last.pre.brains, last.dir[1])) =>
        /\ ~last.res.ok
        /\ \/ files[last.args.out_file] = None
           \/ files[last.args.out_file][1].manifest
                  # last.pre.brains[last.dir[1]].brain_json[1].val

\* C12: import_brain with verify_only set, whatever the package, leaves the
\* brains directory as it was (no directory created, no file changed) and
\* returns no summary.
C12_VerifyOnlyImportChangesNothing ==
    (pc = Idle /\ last.op = "import_brain" /\ last.args.verify_only) =>
        /\ brains = last.pre.brains
        /\ last.dir = None
        /\ last.res.ok => last.res.val = None

\* a verify-only import of a package that passes both checks has returned
C12_Witness ==
    /\ pc = Idle /\ last.op = "import_brain" /\ last.args.verify_only
    /\ last.res.ok
    /\ files[last.args.in_file] # None
    /\ files[last.args.in_file][1].manifest.brain_id \notin DOMAIN brains

\* The brain in dir cannot be opened: its manifest's signature does not
\* verify, or the digest of its state.enc is not the manifest's state_sha256,
\* or the passphrase variable the manifest names is unset.
unloadable(store, dir) ==
    LET manifest == store[dir].brain_json[1].val IN
    \/ ~verify_manifest_signature(manifest)
    \/ digest_differs(store, dir)
    \/ env[manifest.secret_env_var] = None

\* C13: on a brain whose manifest signature does not verify, or whose
\* state.enc does not hash to state_sha256, or whose passphrase variable is
\* unset, every mutation (branch, merge, forget_suppress, attach, detach) and
\* audit_trace fails and leaves every file of the store as it was.
C13_BrokenBrainRefusesOperations ==
    (pc = Idle /\ last.op \in Mutations \cup {"audit_trace"} /\ last.dir # None
       /\ unloadable(last.pre.brains, last.dir[1])) =>
        /\ ~last.res.ok
        /\ brains = last.pre.brains

\* a mutation was refused on a brain whose manifest is signed and whose
\* passphrase is set, but whose state.enc does not match state_sha256
C13_Witness ==
    /\ pc = Idle /\ last.op \in Mutations /\ last.dir # None
    /\ digest_differs(last.pre.brains, last.dir[1])
    /\ verify_manifest_signature(last.pre.brains[last.dir[1]].brain_json[1].val)
    /\ ~last.res.ok /\ last.res.err = "state checksum mismatch"

\* The state of the brain in dir of the brains directory store, decrypted
opened(store, dir) == load_from(store, dir).val.state

\* C14: after a successful merge(source, target, Theirs), every object id
\* the source branch held is in the target branch with the source's value and
\* suppressed flag.
C14_TheirsTakesSource ==
    (pc = Idle /\ last.op = "merge" /\ last.res.ok /\ last.args.strategy = "Theirs") =>
        LET src == opened(last.pre.brains, last.dir[1])
                       .branches[last.args.source].memory_objects
            tgt == opened(brains, last.dir[1]).branches[last.args.target].memory_objects
        IN \A id \in DOMAIN src :
              /\ id \in DOMAIN tgt
              /\ tgt[id].value = src[id].value
              /\ tgt[id].suppressed = src[id].suppressed

\* a Theirs merge succeeded where the target held an object of the source
\* under another value or flag, and lacked another
C14_Witness ==
    /\ pc = Idle /\ last.res.ok /\ merge_met_conflict /\ last.args.strategy = "Theirs"
    /\ last.res.val.merged = 2

\* C15: after a successful forget_suppress(subject, predicate), no object of
\* the active branch with that subject and predicate is unsuppressed, the
\* count returned is the number of objects whose flag went from false to
\* true in the call, and the same call made again at once returns 0.
C15_ForgetSuppressCounts ==
    (pc = Idle /\ last.op = "forget_suppress" /\ last.res.ok) =>
        LET manifest == brains[last.dir[1]].brain_json[1].val
            state == opened(brains, last.dir[1])
            before == opened(last.pre.brains, last.dir[1])
                          .branches[manifest.active_branch].memory_objects
            after == state.branches[manifest.active_branch].memory_objects
        IN
        /\ \A id \in DOMAIN after :
              (after[id].subject = last.args.subject
                 /\ after[id].predicate = last.args.predicate) => after[id].suppressed
        /\ last.res.val = Cardinality({id \in DOMAIN before :
                                          ~before[id].suppressed /\ after[id].suppressed})
        /\ forget_suppress_closure(manifest, state, last.args.subject,
                                   last.args.predicate).val.ret = 0

\* a forget_suppress flagged one object where another matching object was
\* suppressed already
C15_Witness ==
    /\ pc = Idle /\ last.op = "forget_suppress" /\ last.res.ok /\ last.res.val = 1
    /\ LET before == opened(last.pre.brains, last.dir[1]).branches["main"].memory_objects
       IN \E id \in DOMAIN before :
             /\ before[id].predicate = last.args.predicate
             /\ before[id].subject = last.args.subject
             /\ before[id].suppressed

\* The audit sequence held by the state.enc of the brain in dir
stored_audit(store, dir) == store[dir].state_enc.ciphertext_b64.plain.audit

\* The action of the audit entry of an operation
audit_action(op) ==
    CASE op = "create_brain" -> "brain.create"
      [] op = "branch" -> "brain.branch"
      [] op = "merge" -> "brain.merge"
      [] op = "forget_suppress" -> "brain.forget.suppress"
      [] op = "attach" -> "brain.attach"
      [] op = "detach" -> "brain.detach"

\* C20: the audit sequence of a brain is append-only and ordered.  A
\* successful branch, merge, forget_suppress, attach or detach leaves the
\* entries the brain had in place and adds one entry, with the operation's
\* action, at the end; create_brain starts the sequence with the one entry
\* brain.create; an operation that fails, and any operation on another brain,
\* leaves the sequence as it was; audit_trace returns the sequence stored.
C20_AuditAppendOnly ==
    pc = Idle =>
        /\ \A d \in DOMAIN last.pre.brains :
              /\ d \in DOMAIN brains
              /\ LET old == stored_audit(last.pre.brains, d)
                     new == stored_audit(brains, d)
                 IN IF last.dir = Some(d) /\ last.res.ok /\ last.op \in Mutations
                    THEN /\ Len(new) = Len(old) + 1
                         /\ SubSeq(new, 1, Len(old)) = old
                         /\ new[Len(new)].action = audit_action(last.op)
                    ELSE new = old
        /\ (last.op = "create_brain" /\ last.res.ok) =>
              /\ last.dir[1] \notin DOMAIN last.pre.brains
              /\ Len(stored_audit(brains, last.dir[1])) = 1
              /\ stored_audit(brains, last.dir[1])[1].action = audit_action(last.op)
        /\ (last.op = "audit_trace" /\ last.res.ok) =>
              last.res.val = stored_audit(brains, last.dir[1])

\* a second mutation in a row has succeeded on a brain made by create_brain
C20_Witness ==
    /\ pc = Idle /\ last.op \in Mutations /\ last.res.ok
    /\ LET audit == stored_audit(brains, last.dir[1]) IN
       /\ Len(audit) = 3
       /\ audit[1].action = "brain.create"
       /\ audit[2].action # audit[3].action

(***************************************************************************)
(* Properties of the API key mappings                                      *)
(***************************************************************************)
\* The entries an api_keys.json file holds, none if the file is missing
stored_mappings(api_keys) == IF api_keys = None THEN <<>> ELSE api_keys[1].val.mappings

\* The entries of the list whose key_hash is the hash of the key
entries_of(mappings, api_key_plain) ==
    SelectSeq(mappings, LAMBDA m : m.key_hash = sha256_hex(api_key_plain))

\* C16: the mapping file holds at most one entry per key hash; after
\* map_api_key(k, tenant, brain, subject), resolve_api_key(k) returns that
\* tenant, brain and subject, and the entries of every other key are the
\* ones the file held before; resolve_api_key returns the one entry the file
\* holds for the key, and nothing for a key the file has no entry for (as
\* for every key before the first map_api_key).
C16_LatestMappingWins ==
    /\ (home.api_keys # None /\ home.api_keys[1].parses) =>
          \A k \in LookupKeys : Len(entries_of(stored_mappings(home.api_keys), k)) <= 1
    /\ (last.op = "map_api_key" /\ last.res.ok) =>
          /\ resolve_api_key(last.args.api_key_plain)
                 = Ok(Some(ApiKeyMapping(sha256_hex(last.args.api_key_plain),
                                         last.args.tenant_id, last.args.brain_id,
                                         last.args.subject)))
          /\ \A k \in LookupKeys \ {last.args.api_key_plain} :
                entries_of(stored_mappings(home.api_keys), k)
                    = entries_of(stored_mappings(last.pre.api_keys), k)
    /\ (last.op = "resolve_api_key" /\ last.res.ok) =>
          LET held == entries_of(stored_mappings(home.api_keys), last.args.api_key_plain)
          IN last.res.val = (IF held = <<>> THEN None ELSE Some(held[1]))
    /\ home.api_keys = None => \A k \in LookupKeys : resolve_api_key(k) = Ok(None)

\* a key was mapped again, to another brain and subject, while the file held
\* an entry for another key
C16_Witness ==
    /\ last.op = "map_api_key" /\ last.res.ok
    /\ LET old == entries_of(stored_mappings(last.pre.api_keys), last.args.api_key_plain)
       IN /\ Len(old) = 1
          /\ old[1].brain_id # last.args.brain_id
          /\ old[1].subject # last.args.subject
    /\ Len(stored_mappings(home.api_keys)) = 2

(***************************************************************************)
(* Properties of the planner guard                                        *)
(***************************************************************************)
\* The registers the op of a step refers to
register_refs(step) ==
    IF step.op = None THEN {}
    ELSE LET op == step.op[1] IN
         CASE op.kind \in {"resolve", "filter", "project"} -> {op.in_reg}
           [] op.kind = "join" -> {op.left_reg, op.right_reg}
           [] op.kind = "assert" -> {op.bindings[i].reg : i \in 1..Len(op.bindings)}
           [] OTHER -> {}

\* Every step has a non-empty out that is unique in the plan, every register
\* reference names the out of a strictly earlier step, every fetch handleRef
\* and every applySelector selectorRef is among the manifest's refs.
well_formed(plan, manifest) ==
    \A i \in 1..Len(plan.steps) :
        LET step == plan.steps[i] IN
        /\ step.out # <<>>
        /\ \A j \in 1..Len(plan.steps) : j # i => plan.steps[j].out # step.out
        /\ \A r \in register_refs(step) : \E j \in 1..(i - 1) : plan.steps[j].out = r
        /\ step.op # None =>
              /\ step.op[1].kind = "fetch" =>
                    step.op[1].handle_ref \in Range(manifest.handles)
              /\ step.op[1].kind = "applySelector" =>
                    step.op[1].selector_ref \in Range(manifest.selectors)

\* Every step of the plan carries an op, and no out consists of white space only.
plain_steps(plan) ==
    \A i \in 1..Len(plan.steps) :
        /\ plan.steps[i].op # None
        /\ plan.steps[i].out # <<>> => trim(plan.steps[i].out) # <<>>

\* C7: validate_plan_against_manifest accepts a plan (whose steps all carry
\* an op and have no white-space-only out) if and only if every step has a
\* non-empty out that is unique in the plan, every register reference
\* (resolve/filter/project inReg, join leftReg and rightReg, every assert
\* binding reg) names the out of a strictly earlier step, every fetch
\* handleRef is among the manifest's handle refs and every applySelector
\* selectorRef among its selector refs.
C7_AcceptsIffWellFormed ==
    (verdict # None /\ plan_in # None /\ plain_steps(plan_in[1])) =>
        (verdict[1].ok <=> well_formed(plan_in[1], manifest_in[1]))

\* C17: for every manifest with at least one handle or at least one
\* selector, deterministic_plan_from_manifest returns a plan, whose first
\* step fetches the first handle if there is a handle and applies the first
\* selector otherwise, and validate_plan_against_manifest accepts that plan
\* against the same manifest.
C17_DeterministicPlanIsValid ==
    \A request_id \in RequestIds, subject \in PlannerSubjects :
        LET manifest == manifest_in[1]
            plan == deterministic_plan_from_manifest(request_id, subject, manifest)
        IN
        (manifest_in # None /\ (manifest.handles # <<>> \/ manifest.selectors # <<>>)) =>
            /\ plan.ok
            /\ LET op == plan.val.steps[1].op[1] IN
               IF manifest.handles # <<>>
               THEN op.kind = "fetch" /\ op.handle_ref = manifest.handles[1]
               ELSE op.kind = "applySelector" /\ op.selector_ref = manifest.selectors[1]
            /\ (plan_in = Some(plan.val) /\ verdict # None) => verdict[1].ok

\* the guard has accepted the deterministic plan for a manifest that has
\* selectors only
C17_Witness ==
    /\ manifest_in # None /\ plan_in # None /\ verdict # None
    /\ manifest_in[1].handles = <<>> /\ Len(manifest_in[1].selectors) = 2
    /\ \E request_id \in RequestIds, subject \in PlannerSubjects :
          plan_in[1] = deterministic_plan_from_manifest(request_id, subject,
                                                        manifest_in[1]).val
    /\ verdict[1].ok

(***************************************************************************)
(* Properties of the chat pipeline                                         *)
(***************************************************************************)
\* The kernel RPCs of a chat request, in the order the handler issues them
KernelRpcs == <<"append_event", "get_manifest", "execute">>

\* C6: the kernel RPCs of a chat request are issued in the order
\* append_event, get_manifest, execute, each at most once and each only
\* after the one before it returned successfully; execute carries the
\* manifest get_manifest returned and a plan that
\* validate_plan_against_manifest accepts against it, so a plan that fails
\* validation never reaches execute.
C6_RpcOrderAndValidation ==
    /\ Len(chat.rpcs) <= Len(KernelRpcs)
    /\ \A i \in 1..Len(chat.rpcs) :
          /\ chat.rpcs[i].rpc = KernelRpcs[i]
          /\ i > 1 => (Len(chat.replies) >= i - 1 /\ chat.replies[i - 1].ok)
    /\ Len(chat.rpcs) = 3 =>
          /\ chat.replies[2].val.manifest # None
          /\ chat.rpcs[3].request.manifest = chat.replies[2].val.manifest
          /\ chat.rpcs[3].request.plan = chat.plan
          /\ validate_plan_against_manifest(chat.rpcs[3].request.plan[1],
                                            chat.replies[2].val.manifest[1]).ok
    /\ (chat.plan # None /\ chat.manifest # None
          /\ ~validate_plan_against_manifest(chat.plan[1], chat.manifest[1]).ok) =>
          Len(chat.rpcs) < 3

\* a request whose plan came in the X-Cortex-Plan header went through all
\* three RPCs
C6_Witness ==
    /\ chat.pc = "done" /\ Len(chat.rpcs) = 3 /\ Len(chat.replies) = 3
    /\ chat.plan_source = Some("byo_header")

\* A brain directory with a manifest that parses has ref as its id or name.
brain_exists(ref) ==
    \E d \in DOMAIN brains :
        /\ brains[d].brain_json # None /\ brains[d].brain_json[1].parses
        /\ \/ brains[d].brain_json[1].val.brain_id = ref
           \/ brains[d].brain_json[1].val.name = ref

\* The configured default brain exists, or the active brain of config.json does.
default_or_active_exists ==
    \/ app.default_brain # None /\ brain_exists(app.default_brain[1])
    \/ /\ home.config # None /\ home.config[1].parses
       /\ home.config[1].val.active_brain # None
       /\ brain_exists(home.config[1].val.active_brain[1])

\* The bearer token of the request hashes to the key hash of a stored mapping.
bearer_is_mapped ==
    LET token == parse_bearer(chat.headers[1]) IN
    /\ token.ok /\ token.val # None
    /\ home.api_keys # None /\ home.api_keys[1].parses
    /\ \E i \in 1..Len(home.api_keys[1].val.mappings) :
          home.api_keys[1].val.mappings[i].key_hash = sha256_hex(token.val[1])

\* C8: a chat request without an Authorization header passes authentication
\* if and only if a default or active brain exists (stated where CORTEX_BRAIN
\* is unset and no configured default brain is missing, so that the brain
\* meant is not in question); a request with an Authorization header passes
\* if and only if it carries a bearer token whose SHA-256 is the key hash of
\* a stored mapping.
C8_AuthenticationIff ==
    chat.auth # None =>
        IF chat.headers[1].authorization = None
        THEN (env["CORTEX_BRAIN"] = None
                /\ (app.default_brain = None \/ brain_exists(app.default_brain[1]))) =>
                (chat.auth[1].ok <=> default_or_active_exists)
        ELSE chat.auth[1].ok <=> bearer_is_mapped

\* The verified blocks of a reply, joined from the last block backwards
RECURSIVE joined_blocks(_)
joined_blocks(blocks) ==
    IF Len(blocks) = 1 THEN blocks[1]
    ELSE joined_blocks(SubSeq(blocks, 1, Len(blocks) - 1))
             \o <<"\n\n">> \o blocks[Len(blocks)]

\* C9: the assistant content of an HTTP 200 chat response is the execute
\* reply's verified_blocks joined in order, or "No verified output." when
\* there are none, whatever the user message, the plan and the planner's
\* output were; a response has assistant content only if execute returned
\* status Ok.
C9_ContentIsVerifiedBlocks ==
    chat.response # None =>
        /\ chat.response[1].content # None =>
              /\ chat.execute # None
              /\ chat.execute[1].status = 1
              /\ chat.response[1].status = 200
        /\ chat.response[1].status = 200 =>
              /\ chat.execute # None
              /\ LET blocks == IF chat.execute[1].rendered = None THEN <<>>
                               ELSE chat.execute[1].rendered[1].verified_blocks
                 IN chat.response[1].content =
                        Some(IF blocks = <<>> THEN <<"No verified output.">>
                             ELSE joined_blocks(blocks))

\* a 200 response to a reply with two verified blocks
C9_Witness ==
    /\ chat.response # None /\ chat.response[1].status = 200
    /\ chat.execute[1].rendered # None
    /\ Len(chat.execute[1].rendered[1].verified_blocks) = 2

\* The HTTP status the table gives for a kernel status
http_status_of(status) ==
    CASE status = "Ok" -> 200
      [] status = "Rejected" -> 400
      [] status = "Stall" -> 503
      [] status = "AuthDenied" -> 403
      [] status = "RangeExceeded" -> 429
      [] status = "Unspecified" -> 502

\* The response to an execute reply has the table's HTTP status, 502 for a
\* status number that is none of the enum's, and the status name as
\* X-Cortex-Status.
status_is_mapped ==
    LET S == ExecutionStatus(chat.execute[1].status) IN
    /\ chat.response[1].status = http_status_of(S)
    /\ chat.execute[1].status \notin 0..5 => chat.response[1].status = 502
    /\ "x-cortex-status" \in DOMAIN chat.response[1].headers
    /\ chat.response[1].headers["x-cortex-status"] = as_str_name(S)

root_header(name, value) ==
    IF \A i \in 1..Len(value) : value[i] # "\n"
    THEN /\ name \in DOMAIN chat.response[1].headers
         /\ chat.response[1].headers[name] = value
    ELSE name \notin DOMAIN chat.response[1].headers

C18_PlanSourceChoice ==
    chat.headers # None =>
        LET header == chat.headers[1].plan
            mode == app.planner.mode
        IN
        /\ chat.plan_source # None =>
              IF header # None
              THEN /\ chat.plan_source = Some("byo_header")
                   /\ header[1].parses /\ chat.plan = Some(header[1].val)
              ELSE CASE mode = "ByoHeader" -> FALSE
                     [] mode = "Fallback" ->
                           /\ chat.plan_source = Some("fallback")
                           /\ chat.plan = Some(deterministic_plan_from_manifest(
                                                   None, chat.auth[1].val.subject,
                                                   chat.manifest[1]).val)
                     [] mode = "OpenAi" ->
                           /\ chat.plan_source = Some("openai")
                           /\ chat.planner_output # None
                           /\ chat.plan = Some(chat.planner_output[1].val.val)
        /\ (header = None /\ mode = "ByoHeader" /\ chat.manifest # None) =>
              /\ chat.response # None
              /\ chat.response[1].status = 400
              /\ chat.response[1].code = Some("plan_header_required")
              /\ \A i \in 1..Len(chat.rpcs) : chat.rpcs[i].rpc # "execute"
        /\ (\E i \in 1..Len(chat.rpcs) : chat.rpcs[i].rpc = "execute") =>
              chat.plan_source # None
        /\ (chat.execute # None /\ chat.response # None) =>
              /\ "x-cortex-plan-source" \in DOMAIN chat.response[1].headers
              /\ chat.response[1].headers["x-cortex-plan-source"] = <<chat.plan_source[1]>>

\* a request with an X-Cortex-Plan header was answered from execute's reply
\* under a planner mode other than ByoHeader
C18_Witness ==
    /\ chat.headers # None /\ chat.headers[1].plan # None
    /\ app.planner.mode = "OpenAi"
    /\ chat.execute # None /\ chat.response # None
    /\ chat.plan_source = Some("byo_header")

\* The subject of the stored mapping of the request's bearer token
mapped_subject ==
    LET token == parse_bearer(chat.headers[1]).val[1]
        held == entries_of(stored_mappings(home.api_keys), token)
    IN held[1].subject

\* C19: the subject sent to the kernel in append_event, and handed to the
\* deterministic planner, is the subject of the API key mapping the bearer
\* token resolves to, whatever the user field of the body is; without an
\* Authorization header it is the user field, or user:local if that field is
\* missing or blank.
C19_SubjectFromMapping ==
    chat.rpcs # <<>> =>
        LET subject == chat.rpcs[1].request.subject
            user == chat.request[1].user
        IN
        /\ chat.rpcs[1].rpc = "append_event"
        /\ IF chat.headers[1].authorization # None
           THEN bearer_is_mapped /\ subject = mapped_subject
           ELSE subject = (IF user # None /\ trim(user[1]) # <<>> THEN user[1]
                           ELSE <<"user:local">>)
        /\ chat.plan_source = Some("fallback") =>
              chat.plan = Some(deterministic_plan_from_manifest(None, subject,
                                                                chat.manifest[1]).val)

\* a request with a mapped bearer token and a user field in its body went
\* through the deterministic planner's selector plan
C19_Witness ==
    /\ chat.rpcs # <<>> /\ chat.headers[1].authorization # None
    /\ chat.request[1].user = Some(<<"alice">>)
    /\ chat.plan_source = Some("fallback")
    /\ chat.plan[1].steps[1].op[1].kind = "applySelector"
    /\ chat.plan[1].steps[1].op[1].params.subject = <<"svc">>


(***************************************************************************)
(* Further properties of the store                                         *)
(***************************************************************************)
\* C21: branch(ref, new) on success adds a branch named new whose memory
\* objects, rules, ledger and suppressions are those the active branch had
\* when the call started, and leaves every existing branch and the name of
\* the active branch as they were; if a branch named new exists already the
\* call fails and the files of the store are unchanged.
C21_BranchClonesActive ==
    (pc = Idle /\ last.op = "branch" /\ last.dir # None
       /\ ~unloadable(last.pre.brains, last.dir[1])) =>
        LET dir == last.dir[1]
            old_manifest == last.pre.brains[dir].brain_json[1].val
            before == opened(last.pre.brains, dir).branches
            new_branch == last.args.new_branch
        IN
        IF new_branch \in DOMAIN before
        THEN ~last.res.ok /\ brains = last.pre.brains
        ELSE last.res.ok =>
            LET after == opened(brains, dir).branches
                active == before[old_manifest.active_branch]
            IN
            /\ DOMAIN after = DOMAIN before \cup {new_branch}
            /\ after[new_branch].name = new_branch
            /\ after[new_branch].memory_objects = active.memory_objects
            /\ after[new_branch].rules = active.rules
            /\ after[new_branch].ledger = active.ledger
            /\ after[new_branch].suppressions = active.suppressions
            /\ \A b \in DOMAIN before : after[b] = before[b]
            /\ brains[dir].brain_json[1].val.active_branch = old_manifest.active_branch

\* a branch succeeded on a brain with a second branch, whose active branch
\* held objects, rules and a suppression record
C21_Witness ==
    /\ pc = Idle /\ last.op = "branch" /\ last.res.ok
    /\ LET before == opened(last.pre.brains, last.dir[1]).branches
           active == before[last.pre.brains[last.dir[1]].brain_json[1].val.active_branch]
       IN /\ Cardinality(DOMAIN before) > 1
          /\ DOMAIN active.memory_objects # {}
          /\ active.rules # <<>>
          /\ active.suppressions # <<>>

\* C22: list_brains returns exactly the brains whose manifest parses: a
\* directory whose brain.json is missing or does not parse is left out of the
\* result and makes neither list_brains nor resolve_brain fail for the other
\* brains.  (The order of the result is not part of this statement.)
C22_ListingSkipsUnparsable ==
    LET parsing == {d \in DOMAIN brains :
                       brains[d].brain_json # None /\ brains[d].brain_json[1].parses}
    IN
    /\ list_brains.ok
    /\ list_brains.val = {summary_of(brains[d].brain_json[1].val) : d \in parsing}
    /\ \A d \in parsing : resolve_brain(d).ok /\ resolve_brain(d).val.brain_id = d

\* The attachments held by the state.enc of the brain in dir
stored_attachments(store, dir) == store[dir].state_enc.ciphertext_b64.plain.attachments

\* C23: the attachments of a brain hold at most one grant per (agent, model)
\* pair; after a successful attach(grant) the last attachment is grant, and
\* before it stand the grants of the other pairs, with the content and in
\* the order they had.
C23_AttachmentsUniquePerPair ==
    /\ \A d \in DOMAIN brains :
          LET grants == stored_attachments(brains, d) IN
          \A i, j \in DOMAIN grants :
             (grants[i].agent_id = grants[j].agent_id
                /\ grants[i].model_id = grants[j].model_id) => i = j
    /\ (pc = Idle /\ last.op = "attach" /\ last.res.ok) =>
          LET old == stored_attachments(last.pre.brains, last.dir[1])
              new == stored_attachments(brains, last.dir[1])
              other_pair(a) == ~(a.agent_id = last.args.grant.agent_id
                                   /\ a.model_id = last.args.grant.model_id)
          IN
          /\ new[Len(new)] = last.args.grant
          /\ SubSeq(new, 1, Len(new) - 1) = SelectSeq(old, other_pair)

\* an attach replaced a grant of its pair that differed from the new one and
\* stood between the grants of two other pairs
C23_Witness ==
    /\ pc = Idle /\ last.op = "attach" /\ last.res.ok
    /\ LET old == stored_attachments(last.pre.brains, last.dir[1])
           grant == last.args.grant
       IN \E i \in DOMAIN old :
             /\ 1 < i /\ i < Len(old)
             /\ old[i].agent_id = grant.agent_id /\ old[i].model_id = grant.model_id
             /\ old[i] # grant

\* C24: in a successful merge, an id absent from target is inserted from
\* source, an id present in both with identical (value, suppressed) is left
\* as it is, under strategy Ours an id present in both with differing content
\* keeps the target's object, a target object whose id is not in source is
\* unchanged, and the reported merged is the number of objects inserted into
\* or overwritten in target.
C24_MergeFrame ==
    (pc = Idle /\ last.op = "merge" /\ last.res.ok) =>
        LET before == opened(last.pre.brains, last.dir[1]).branches
            src == before[last.args.source].memory_objects
            old == before[last.args.target].memory_objects
            new == opened(brains, last.dir[1]).branches[last.args.target].memory_objects
            same(id) == /\ old[id].value = src[id].value
                        /\ old[id].suppressed = src[id].suppressed
        IN
        /\ DOMAIN new = DOMAIN old \cup DOMAIN src
        /\ \A id \in DOMAIN src \ DOMAIN old : new[id] = src[id]
        /\ \A id \in DOMAIN src \cap DOMAIN old : same(id) => new[id] = old[id]
        /\ last.args.strategy = "Ours" =>
              \A id \in DOMAIN src \cap DOMAIN old : new[id] = old[id]
        /\ \A id \in DOMAIN old \ DOMAIN src : new[id] = old[id]
        /\ last.res.val.merged =
              Cardinality({id \in DOMAIN new : id \notin DOMAIN old \/ new[id] # old[id]})

\* a merge under Ours succeeded where the target held an object of the
\* source under another value or flag, and lacked another
C24_Witness ==
    /\ pc = Idle /\ last.res.ok /\ merge_met_conflict /\ last.args.strategy = "Ours"
    /\ last.res.val.merged = 1

\* C25: create_brain fails when the passphrase variable is unset and then
\* creates no brain directory; on success the new brain has exactly one
\* branch, main, which is empty, active_branch = main, an audit trail that is
\* the single entry brain.create, and a manifest that passes the signature
\* and state-checksum verification.
C25_CreateBrainPostconditions ==
    (pc = Idle /\ last.op = "create_brain") =>
        LET secret_env == IF last.args.passphrase_env = None THEN DEFAULT_SECRET_ENV
                          ELSE last.args.passphrase_env[1]
        IN
        IF env[secret_env] = None
        THEN ~last.res.ok /\ brains = last.pre.brains
        ELSE
        /\ last.res.ok
        /\ last.dir[1] \notin DOMAIN last.pre.brains
        /\ DOMAIN brains = DOMAIN last.pre.brains \cup {last.dir[1]}
        /\ LET manifest == brains[last.dir[1]].brain_json[1].val
               loaded == load_from(brains, last.dir[1])
           IN
           /\ verify_manifest_signature(manifest)
           /\ ~digest_differs(brains, last.dir[1])
           /\ manifest.active_branch = "main"
           /\ loaded.ok
           /\ DOMAIN loaded.val.state.branches = {"main"}
           /\ loaded.val.state.branches["main"] = BranchState("main", EmptyMap, <<>>)
           /\ Len(loaded.val.state.audit) = 1
           /\ loaded.val.state.audit[1].action = "brain.create"

\* a brain was created with the passphrase variable set, in a store that
\* held another brain
C25_Witness ==
    /\ pc = Idle /\ last.op = "create_brain" /\ last.res.ok
    /\ last.pre.brains # EmptyMap
    /\ last.dir[1] \in DOMAIN brains

\* C26: when merge runs with strategy Manual and conflicting ids exist, the
\* caller of merge is handed a merge report whose conflicts are the set of
\* the conflicting ids.
C26_ManualReportHoldsConflicts ==
    (pc = Idle /\ merge_met_conflict /\ last.args.strategy = "Manual") =>
        LET before == opened(last.pre.brains, last.dir[1]).branches
            src == before[last.args.source].memory_objects
            tgt == before[last.args.target].memory_objects
            conflicting == {id \in DOMAIN src \cap DOMAIN tgt :
                               <<src[id].value, src[id].suppressed>>
                                   # <<tgt[id].value, tgt[id].suppressed>>}
        IN
        /\ last.res.ok
        /\ Range(last.res.val.conflicts) = conflicting

\* C27: when two mutations of the same brain run at the same time, their
\* reads and writes interleaved, then once both have returned success the
\* brain is loadable: the state_sha256 of brain.json is the digest of
\* state.enc and the signature of the manifest verifies.
C27_ConcurrentMutationsLeaveLoadable ==
    (\A p \in Callers : pc[p].phase = "returned" /\ pc[p].res.ok) =>
        /\ verify_manifest_signature(brains[DemoId].brain_json[1].val)
        /\ ~digest_differs(brains, DemoId)
        /\ load_from(brains, DemoId).ok

\* The branches held by the state.enc of the brain in dir
stored_branches(store, dir) == store[dir].state_enc.ciphertext_b64.plain.branches

\* The objects (branch, id) of the brain in dir of store with suppressed = true
suppressed_in(store, dir) ==
    LET branches == stored_branches(store, dir) IN
    {<<b, id>> \in (DOMAIN branches) \X ObjIds :
        id \in DOMAIN branches[b].memory_objects
          /\ branches[b].memory_objects[id].suppressed}

\* The objects (branch, id) that the merge that last ran, if it ran under
\* Theirs, was to overwrite with an unsuppressed object of its source
unsuppressed_by_theirs ==
    IF last.op = "merge" /\ last.res.ok /\ last.args.strategy = "Theirs"
    THEN LET src == stored_branches(last.pre.brains, last.dir[1])[last.args.source]
                        .memory_objects
         IN {<<last.args.target, id>> : id \in {i \in DOMAIN src : ~src[i].suppressed}}
    ELSE {}

\* C28 as claimed: an object of a branch that has suppressed = true is still
\* there and still suppressed after any branch, merge, forget_suppress,
\* attach or detach.
C28_SuppressedStaysSuppressed ==
    (pc = Idle /\ last.op \in Mutations /\ last.dir # None) =>
        suppressed_in(last.pre.brains, last.dir[1]) \subseteq
            suppressed_in(brains, last.dir[1])

\* C28 as amended: an object of a branch that has suppressed = true is still
\* there and still suppressed after any branch, forget_suppress, attach,
\* detach or merge, except after a successful merge under Theirs into that
\* branch whose source held the id with suppressed = false: that merge
\* leaves the object unsuppressed.
C28_SuppressedUnlessTheirs ==
    (pc = Idle /\ last.op \in Mutations /\ last.dir # None) =>
        LET before == suppressed_in(last.pre.brains, last.dir[1])
            after == suppressed_in(brains, last.dir[1])
        IN
        /\ before \ unsuppressed_by_theirs \subseteq after
        /\ (before \cap unsuppressed_by_theirs) \cap after = {}

\* a merge under Ours or Theirs succeeded into a branch that held a
\* suppressed object, from a source that held it unsuppressed
C28_Witness ==
    /\ pc = Idle /\ last.op = "merge" /\ last.res.ok
    /\ LET before == stored_branches(last.pre.brains, last.dir[1]) IN
       \E id \in DOMAIN before[last.args.source].memory_objects
                    \cap DOMAIN before[last.args.target].memory_objects :
          /\ before[last.args.target].memory_objects[id].suppressed
          /\ ~before[last.args.source].memory_objects[id].suppressed

(***************************************************************************)
(* Further properties of the chat pipeline                                 *)
(***************************************************************************)
\* The codes of the responses that reject a request before any kernel RPC
RejectionCodes ==
    {"stream_not_supported", "missing_user_message",
     "invalid_auth_header", "auth_required", "auth_failed", "auth_lookup_failed"}

\* C29: a chat request that is rejected because stream = true, because it
\* has no user message text, or because authentication fails causes no
\* kernel RPC: append_event, get_manifest and execute are issued only for
\* requests that passed all three checks.
C29_RejectedRequestsReachNoKernel ==
    chat.request # None =>
        LET request == chat.request[1]
            rejected == \/ request.stream = Some(TRUE)
                        \/ extract_user_message(request) = None
                        \/ ~resolve_context(chat.headers[1], request).ok
        IN
        /\ rejected =>
              /\ chat.rpcs = <<>>
              /\ chat.pc = "done"
              /\ chat.response[1].code # None
              /\ chat.response[1].code[1] \in RejectionCodes
        /\ (chat.pc = "done" /\ chat.response[1].code # None
               /\ chat.response[1].code[1] \in RejectionCodes) => chat.rpcs = <<>>
        /\ chat.rpcs # <<>> => ~rejected

\* a request with a user message and without stream = true was turned away
\* because its bearer token is not mapped
C29_Witness ==
    /\ chat.pc = "done" /\ chat.rpcs = <<>>
    /\ chat.request[1].stream # Some(TRUE)
    /\ chat.user_message # None
    /\ chat.auth # None /\ ~chat.auth[1].ok
    /\ chat.response[1].code = Some("auth_failed")

\* C30: in a store whose brains all come from create_brain and the store's
\* own operations (branch, merge, forget_suppress, attach, detach, export,
\* import of its own exports), the memory_objects, rules and ledger of every
\* branch of every brain are empty, every merge that succeeds reports
\* merged = 0 and no conflicts, no merge fails on conflicts, and every
\* forget_suppress that succeeds returns 0.
C30_OwnOperationsCreateNoObjects ==
    /\ \A d \in DOMAIN brains :
          \A b \in DOMAIN stored_branches(brains, d) :
             /\ stored_branches(brains, d)[b].memory_objects = EmptyMap
             /\ stored_branches(brains, d)[b].rules = <<>>
             /\ stored_branches(brains, d)[b].ledger = <<>>
    /\ \A f \in PackagePaths :
          files[f] # None =>
             LET branches == files[f][1].state.ciphertext_b64.plain.branches IN
             \A b \in DOMAIN branches : branches[b].memory_objects = EmptyMap
    /\ (pc = Idle /\ last.op = "merge") =>
          IF last.res.ok
          THEN last.res.val = [merged |-> 0, conflicts |-> <<>>]
          ELSE last.res.err # "merge conflicts"
    /\ (pc = Idle /\ last.op = "forget_suppress" /\ last.res.ok) => last.res.val = 0

\* a merge succeeded between two branches of a brain made by create_brain
C30_Witness ==
    /\ pc = Idle /\ last.op = "merge" /\ last.res.ok
    /\ last.res.val.merged = 0
    /\ Cardinality(DOMAIN stored_branches(brains, last.dir[1])) = 2

====
